---------------------------- MODULE Spec2Model ----------------------------
(***************************************************************************)
(* CancerGrowthDynamics: the batch scripts that turn per-tile measurement  *)
(* CSVs into per-well and per-day statistics.  One run of one script is a  *)
(* behaviour: Init fixes the script and the files it finds, every action   *)
(* is one iteration of that script's file loop (or its final write).       *)
(*                                                                         *)
(* Text is a sequence of one-character strings, so that the regular        *)
(* expressions of the parsers are computed on the characters.  A CSV cell  *)
(* is a record: text (t = "s") or a number (t = "n", the rational n/d in   *)
(* lowest terms).  Optional results are <<>> (None) or <<x>>.              *)
(***************************************************************************)
EXTENDS Integers, Sequences, FiniteSets, TLC

VARIABLES script, pc, inputs, idx, outputs, nOk, nFail, header, buckets, upstream,
          dirs, original

vars ==
    <<script, pc, inputs, idx, outputs, nOk, nFail, header, buckets, upstream, dirs,
      original>>

-----------------------------------------------------------------------------
(* Characters and text *)

Ord == "\n" :> 10 @@ "-" :> 45 @@ "." :> 46 @@ "0" :> 48 @@ "1" :> 49 @@ "2" :> 50
    @@ "3" :> 51 @@ "4" :> 52 @@ "5" :> 53 @@ "6" :> 54 @@ "7" :> 55 @@ "8" :> 56
    @@ "9" :> 57 @@ "A" :> 65 @@ "B" :> 66 @@ "C" :> 67 @@ "D" :> 68 @@ "F" :> 70
    @@ "I" :> 73 @@ "T" :> 84 @@ "X" :> 88 @@ "_" :> 95 @@ "a" :> 97 @@ "b" :> 98
    @@ "c" :> 99 @@ "d" :> 100 @@ "e" :> 101 @@ "f" :> 102 @@ "g" :> 103 @@ "i" :> 105
    @@ "l" :> 108 @@ "n" :> 110 @@ "p" :> 112 @@ "t" :> 116 @@ "y" :> 121

UpperMap == "a" :> "A" @@ "b" :> "B" @@ "c" :> "C" @@ "d" :> "D" @@ "f" :> "F"
    @@ "i" :> "I" @@ "t" :> "T"

DigitVal == "0" :> 0 @@ "1" :> 1 @@ "2" :> 2 @@ "3" :> 3 @@ "4" :> 4 @@ "5" :> 5
    @@ "6" :> 6 @@ "7" :> 7 @@ "8" :> 8 @@ "9" :> 9

Upper(c) == IF c \in DOMAIN UpperMap THEN UpperMap[c] ELSE c

UpperStr(s) == [k \in 1..Len(s) |-> Upper(s[k])]

IsDigit(c) == c \in DOMAIN DigitVal

IsUpperAZ(c) == Ord[c] >= 65 /\ Ord[c] <= 90

Min(S) == CHOOSE x \in S : \A y \in S : x <= y

\* lit occurs in s at position i
LitAt(s, i, lit) ==
    /\ i >= 1
    /\ i + Len(lit) - 1 <= Len(s)
    /\ \A k \in 1..Len(lit) : s[i + k - 1] = lit[k]

\* the same under re.IGNORECASE
LitAtIC(s, i, lit) ==
    /\ i >= 1
    /\ i + Len(lit) - 1 <= Len(s)
    /\ \A k \in 1..Len(lit) : Upper(s[i + k - 1]) = Upper(lit[k])

\* (\d+) is greedy: the last index of the longest digit run that starts at i
\* (i - 1 when s[i] is no digit)
DigitsEnd(s, i) ==
    CHOOSE j \in (i - 1)..Len(s) :
        /\ \A k \in i..j : IsDigit(s[k])
        /\ (j = Len(s) \/ ~IsDigit(s[j + 1]))

RECURSIVE ToInt(_, _, _)
ToInt(s, i, j) == IF j < i THEN 0 ELSE 10 * ToInt(s, i, j - 1) + DigitVal[s[j]]

\* $ without re.MULTILINE: the end of the string, or just before a final newline
AtEnd(s, i) == i = Len(s) + 1 \/ (i = Len(s) /\ s[i] = "\n")

DAYLIT == <<"D", "a", "y">>
UDAYLIT == <<"_", "D", "a", "y">>
TILELIT == <<"T", "i", "l", "e", "-">>
TIF == <<".", "t", "i", "f">>

-----------------------------------------------------------------------------
(* create_averages.parse_filename_components *)

\* re.search(r'Day(\d+)', filename)
DayMatches(s) == {i \in 1..Len(s) : LitAt(s, i, DAYLIT) /\ DigitsEnd(s, i + 3) >= i + 3}

\* re.search(r'Tile-(\d+)', filename)
TileMatches(s) == {i \in 1..Len(s) : LitAt(s, i, TILELIT) /\ DigitsEnd(s, i + 5) >= i + 5}

\* the well pattern, were it compiled with re.IGNORECASE
WellMatches_ignorecase(s) ==
    {i \in 1..Len(s) :
        /\ s[i] = "_"
        /\ i + 1 <= Len(s)
        /\ IsUpperAZ(Upper(s[i + 1]))
        /\ DigitsEnd(s, i + 2) >= i + 2
        /\ LitAtIC(s, DigitsEnd(s, i + 2) + 1, TIF)}

\* re.search(r'_([A-Z]\d+)\.tif', filename)
WellMatches(s) ==
    {i \in 1..Len(s) :
        /\ s[i] = "_"
        /\ i + 1 <= Len(s)
        /\ IsUpperAZ(s[i + 1])
        /\ DigitsEnd(s, i + 2) >= i + 2
        /\ LitAt(s, DigitsEnd(s, i + 2) + 1, TIF)}

parse_filename_components(filename) ==
    LET dm == DayMatches(filename)
        tm == TileMatches(filename)
        wm == WellMatches(filename)
    IN  [day |-> IF dm = {} THEN <<>>
                 ELSE <<ToInt(filename, Min(dm) + 3, DigitsEnd(filename, Min(dm) + 3))>>,
         tile |-> IF tm = {} THEN <<>>
                  ELSE <<ToInt(filename, Min(tm) + 5, DigitsEnd(filename, Min(tm) + 5))>>,
         well |-> IF wm = {} THEN <<>>
                  ELSE <<SubSeq(filename, Min(wm) + 1, DigitsEnd(filename, Min(wm) + 2))>>]

-----------------------------------------------------------------------------
(* compute_sample_averages.parse_day_and_well *)

\* DAY_RE = re.compile(r"_Day(\d+)_", re.IGNORECASE)
DAY_RE(s) ==
    {i \in 1..Len(s) :
        /\ LitAtIC(s, i, UDAYLIT)
        /\ DigitsEnd(s, i + 4) >= i + 4
        /\ DigitsEnd(s, i + 4) + 1 <= Len(s)
        /\ s[DigitsEnd(s, i + 4) + 1] = "_"}

\* WELL_RE = re.compile(r"_([AB][1-6])\.tif$", re.IGNORECASE)
WELL_RE(s) ==
    {i \in 1..Len(s) :
        /\ s[i] = "_"
        /\ i + 2 <= Len(s)
        /\ Upper(s[i + 1]) \in {"A", "B"}
        /\ s[i + 2] \in {"1", "2", "3", "4", "5", "6"}
        /\ LitAtIC(s, i + 3, TIF)
        /\ AtEnd(s, i + 7)}

parse_day_and_well(image) ==
    LET d == DAY_RE(image)
        w == WELL_RE(image)
    IN  IF d = {} \/ w = {} THEN <<>>
        ELSE << [day |-> ToInt(image, Min(d) + 4, DigitsEnd(image, Min(d) + 4)),
                 well |-> UpperStr(SubSeq(image, Min(w) + 1, Min(w) + 2))] >>

-----------------------------------------------------------------------------
(* Numbers.  A float the scripts compute is kept exactly: a rational        *)
(* [n, d] in lowest terms, or for a standard deviation or standard error    *)
(* the rational whose square root it is.  Formatting rounds it.             *)

RECURSIVE GCD(_, _)
GCD(a, b) == IF b = 0 THEN a ELSE GCD(b, a % b)

Rat(a, b) == LET g == GCD(a, b) IN [n |-> a \div g, d |-> b \div g]

Zero == Rat(0, 1)

RAdd(p, q) == Rat(p.n * q.d + q.n * p.d, p.d * q.d)

\* p - q, for p >= q
RSub(p, q) == Rat(p.n * q.d - q.n * p.d, p.d * q.d)

RMul(p, q) == Rat(p.n * q.n, p.d * q.d)

RDivInt(p, k) == Rat(p.n, p.d * k)

RLess(p, q) == p.n * q.d < q.n * p.d

RECURSIVE SumR(_)
SumR(vals) == IF vals = <<>> THEN Zero ELSE RAdd(vals[1], SumR(Tail(vals)))

RECURSIVE SumSqR(_)
SumSqR(vals) ==
    IF vals = <<>> THEN Zero ELSE RAdd(RMul(vals[1], vals[1]), SumSqR(Tail(vals)))

\* statistics.mean / the 'mean' aggregation
mean(vals) == RDivInt(SumR(vals), Len(vals))

\* the population standard deviation (statistics.pstdev, ddof = 0)
stdev_population(vals) ==
    LET n == Len(vals)
        s == SumR(vals)
        ss == RSub(SumSqR(vals), RDivInt(RMul(s, s), n))
    IN  RDivInt(ss, n)

\* statistics.stdev / the 'std' aggregation (ddof = 1), for Len(vals) >= 2:
\* sqrt(sum((x - m)^2) / (n - 1)); the result is the rational under the root
stdev(vals) ==
    LET n == Len(vals)
        s == SumR(vals)
        ss == RSub(SumSqR(vals), RDivInt(RMul(s, s), n))
    IN  RDivInt(ss, n - 1)

\* sd / n, the square root forgotten
DivSqrt_byN(sd, n) == RDivInt(sd, n * n)

\* sd / math.sqrt(n), on the rationals under the roots
DivSqrt(sd, n) == RDivInt(sd, n)

RECURSIVE Pow10(_)
Pow10(k) == IF k = 0 THEN 1 ELSE 10 * Pow10(k - 1)

\* a rational rounded to k decimals, in units of 10^-k, ties to even
RECURSIVE LongDiv(_, _, _, _)
LongDiv(acc, r, d, k) ==
    IF k = 0 THEN <<acc, r>>
    ELSE LongDiv(acc * 10 + (r * 10) \div d, (r * 10) % d, d, k - 1)

Fmt(q, k) ==
    LET ld == LongDiv(q.n \div q.d, q.n % q.d, q.d, k)
        up == 2 * ld[2] > q.d \/ (2 * ld[2] = q.d /\ ld[1] % 2 = 1)
    IN  ld[1] + (IF up THEN 1 ELSE 0)

\* f"{x:.6f}": the number of millionths
Fmt6(q) == Fmt(q, 6)

ISqrt(m) == CHOOSE p \in 0..m : p * p <= m /\ (p + 1) * (p + 1) > m

\* the decimal digits of a square root, one per step: p is the root so far and
\* R / d what is left under it
RECURSIVE SqrtDigits(_, _, _, _)
SqrtDigits(p, R, d, k) ==
    IF k = 0 THEN <<p, R>>
    ELSE LET c == CHOOSE x \in 0..9 :
                    /\ (20 * p + x) * x * d <= 100 * R
                    /\ (x = 9 \/ (20 * p + x + 1) * (x + 1) * d > 100 * R)
         IN  SqrtDigits(10 * p + c, 100 * R - (20 * p + c) * c * d, d, k - 1)

\* sqrt(q) rounded to k decimals, in units of 10^-k
FmtRoot(q, k) ==
    LET p0 == ISqrt(q.n \div q.d)
        sd == SqrtDigits(p0, q.n - p0 * p0 * q.d, q.d, k)
        up == 4 * sd[2] > (4 * sd[1] + 1) * q.d
              \/ (4 * sd[2] = (4 * sd[1] + 1) * q.d /\ sd[1] % 2 = 1)
    IN  sd[1] + (IF up THEN 1 ELSE 0)

\* f"{x:.6f}" of sqrt(q)
FmtRoot6(q) == FmtRoot(q, 6)

\* float("11.000000"): the number a six-decimal field denotes
Micro(k) == Rat(k, Pow10(6))

\* the number a two-decimal value denotes (DataFrame.round(2))
Centi(k) == Rat(k, Pow10(2))

-----------------------------------------------------------------------------
(* CSV files.  A file is [name, readable, header, rows]: name is            *)
(* [dir, stem, suffix] (the path dir/stem+suffix.csv), readable is FALSE    *)
(* when opening or decoding it raises, header is the first line (<<>> for   *)
(* an empty file) and rows are the other lines, each a sequence of cells.   *)

\* a number cell holds q + sg * sqrt(r): sg = 0 for a rational, q = 0 and
\* sg = 1 for a standard deviation, q the mean and sg = -1 or 1 for the bounds
\* of a confidence interval; t = "e" is the empty cell to_csv writes for NaN
Txt(s) == [t |-> "s", s |-> s, q |-> Zero, r |-> Zero, sg |-> 0]

Num(q) == [t |-> "n", s |-> <<>>, q |-> q, r |-> Zero, sg |-> 0]

Surd(q, sg, r) == [t |-> "n", s |-> <<>>, q |-> q, r |-> r, sg |-> sg]

NaNCell == [t |-> "e", s |-> <<>>, q |-> Zero, r |-> Zero, sg |-> 0]

IntCell(k) == Num(Rat(k, 1))

\* the characters of a cell as the parsers see them; a number holds no '_'
CellText(c) == IF c.t = "s" THEN c.s ELSE <<>>

\* float(x) succeeds
IsFloat(c) == c.t = "n"

\* int(x) succeeds: Day cells are written without a decimal point
IsInt(c) == c.t = "n" /\ c.q.d = 1

Content(hdr, rows) == [exists |-> TRUE, readable |-> TRUE, header |-> hdr, rows |-> rows]

Unreadable == [exists |-> TRUE, readable |-> FALSE, header |-> <<>>, rows |-> <<>>]

Missing == [exists |-> FALSE, readable |-> FALSE, header |-> <<>>, rows |-> <<>>]

EmptyFile == Content(<<>>, <<>>)

File(name, c) ==
    [name |-> name, exists |-> c.exists, readable |-> c.readable, header |-> c.header,
     rows |-> c.rows]

\* a file that a later script finds where an earlier one wrote it
Written(o) == File(o.name, Content(o.header, o.rows))

\* Column names.  COL_AREA is 'Area µm^2' (µ is U+00B5); the MOJI names are
\* the literals of compute_sample_averages.py, whose bytes C3 82 C2 B5 read
\* as U+00C2 U+00B5 before 'm^2'.
COL_AREA == "Area um^2"
COL_MEAN_AREA == "Mean Area um^2"
COL_SD_AREA == "SD Area um^2"
COL_SEM_AREA == "SEM Area um^2"
COL_MEAN_MOJI == "Mean Area \\u00c2um^2"
COL_SD_MOJI == "SD Area \\u00c2um^2"
COL_SEM_MOJI == "SEM Area \\u00c2um^2"

\* row[c] for a csv.DictReader row: None (<<>>) for a missing column or cell
ColIndex(hdr, c) == {k \in 1..Len(hdr) : hdr[k] = c}

DictGet(hdr, row, c) ==
    LET ks == {k \in ColIndex(hdr, c) : k <= Len(row)}
    IN  IF ks = {} THEN <<>> ELSE <<row[CHOOSE k \in ks : \A j \in ks : j <= k]>>

\* the elements of a finite set in ascending order; lt[<<x, y>>] is x < y
RECURSIVE SortSet(_, _)
SortSet(S, lt) ==
    IF S = {} THEN <<>>
    ELSE LET m == CHOOSE x \in S : \A y \in S \ {x} : lt[<<x, y>>]
         IN  <<m>> \o SortSet(S \ {m}, lt)

\* str < str: by code point, a proper prefix first
RECURSIVE StrLess(_, _)
StrLess(a, b) ==
    IF b = <<>> THEN FALSE
    ELSE IF a = <<>> THEN TRUE
    ELSE IF a[1] # b[1] THEN Ord[a[1]] < Ord[b[1]]
    ELSE StrLess(Tail(a), Tail(b))

\* [f(x) for x in seq]
MapSeq(seq, f(_)) == [k \in 1..Len(seq) |-> f(seq[k])]

-----------------------------------------------------------------------------
(* compute_sample_averages.per_day_sample_stats and main *)

\* the rows the read loop keeps (lines 55-66)
TileRows(file) ==
    SelectSeq(file.rows,
        LAMBDA row : /\ Len(row) >= 2
                     /\ parse_day_and_well(CellText(row[1])) # <<>>
                     /\ IsFloat(row[2]))

TileKey(row) == parse_day_and_well(CellText(row[1]))[1]

\* tiles: the (Day, Well) keys and the areas appended under each
TileKeys(file) == {TileKey(TileRows(file)[k]) : k \in 1..Len(TileRows(file))}

TileVals(file, key) ==
    MapSeq(SelectSeq(TileRows(file), LAMBDA row : TileKey(row) = key),
           LAMBDA row : row[2].q)

\* rows.sort(key=lambda r: (r[0], well_sort_key(r[1]))), well_sort_key(w) =
\* (w[0], int(w[1]))
KeyLess(a, b) ==
    \/ a.day < b.day
    \/ /\ a.day = b.day
       /\ \/ Ord[a.well[1]] < Ord[b.well[1]]
          \/ /\ a.well[1] = b.well[1]
             /\ DigitVal[a.well[2]] < DigitVal[b.well[2]]

\* one tuple of rows (lines 73-80); sd and sem are the rationals under the root
SampleStat(key, vals) ==
    LET ntiles == Len(vals)
        sd == IF ntiles >= 2 THEN stdev(vals) ELSE Zero
    IN  [day |-> key.day, well |-> key.well, n |-> ntiles, m |-> mean(vals),
         sd |-> sd, sem |-> DivSqrt(sd, ntiles)]

\* the line writer.writerow makes of a tuple (line 88)
SampleLine(r) ==
    <<IntCell(r.day), Txt(r.well), IntCell(r.n), Num(Micro(Fmt6(r.m))),
      Num(Micro(FmtRoot6(r.sd))), Num(Micro(FmtRoot6(r.sem)))>>

SAMPLE_HEADER == <<"Day", "Well", "N Tiles", COL_MEAN_MOJI, COL_SD_MOJI, COL_SEM_MOJI>>

per_day_sample_stats(file, out) ==
    LET stats == MapSeq(SortSet(TileKeys(file),
                                [p \in TileKeys(file) \X TileKeys(file) |-> KeyLess(p[1], p[2])]),
                        LAMBDA key : SampleStat(key, TileVals(file, key)))
    IN  [name |-> out, header |-> SAMPLE_HEADER, rows |-> MapSeq(stats, SampleLine),
         stats |-> stats]

\* inp.stem + "_sample_averages": the stem of a path is its name without .csv
SuffixCat(s, t) ==
    CASE s = "" -> t
      [] s = "_sample_averages" /\ t = "_sample_averages" -> "_sample_averages_sample_averages"

\* out_dir / (inp.stem + "_sample_averages.csv"), out_dir = inp.parent / "Averages"
SampleOut(name) ==
    [dir |-> Append(name.dir, "Averages"), stem |-> name.stem,
     suffix |-> SuffixCat(name.suffix, "_sample_averages")]

\* what input_csv.open reads for the k-th input: the file as it is on disk,
\* which is what an earlier iteration wrote if it wrote to that path
FileAsRead(k) ==
    LET hits == {i \in 1..Len(outputs) :
                    /\ outputs[i].name = inputs[k].name
                    /\ \E j \in 1..(k - 1) : outputs[i].name = SampleOut(inputs[j].name)}
    IN  IF hits = {} THEN inputs[k]
        ELSE Written(outputs[CHOOSE i \in hits : \A j \in hits : j <= i])

\* one iteration of the loop of main (lines 128-139)
SampleAveragesFile ==
    /\ script = "compute_sample_averages"
    /\ pc = "run"
    /\ idx <= Len(inputs)
    /\ LET inp == FileAsRead(idx)
       IN  IF ~inp.readable
           THEN \* except Exception: print ERROR
                /\ nFail' = nFail + 1
                /\ UNCHANGED <<nOk, outputs>>
           ELSE IF inp.header = <<>>
           THEN \* return 0 before the output is opened; main prints Wrote 0
                /\ nOk' = nOk + 1
                /\ UNCHANGED <<nFail, outputs>>
           ELSE /\ outputs' = Append(outputs, per_day_sample_stats(inp, SampleOut(inp.name)))
                /\ nOk' = nOk + 1
                /\ UNCHANGED nFail
    /\ idx' = idx + 1
    /\ UNCHANGED <<script, pc, inputs, header, buckets, upstream, original>>
    /\ dirs' = dirs \cup {SampleOut(inputs[idx].name).dir}

\* the loop is over: print Done, return 0 (or "No input CSVs found", return 1)
SampleAveragesDone ==
    /\ script = "compute_sample_averages"
    /\ pc = "run"
    /\ idx > Len(inputs)
    /\ pc' = "done"
    /\ UNCHANGED <<script, inputs, idx, outputs, nOk, nFail, header, buckets, upstream, dirs, original>>

-----------------------------------------------------------------------------
(* compute_group_day_averages.read_per_well_means, write_per_file_day_averages *)

\* the rows the DictReader loop keeps (lines 23-29): <<day, mean>>
WellMeanCell(hdr, row) ==
    LET a == DictGet(hdr, row, COL_MEAN_AREA)
    IN  IF a # <<>> /\ a[1] # Txt(<<>>) THEN a ELSE DictGet(hdr, row, "Mean")

WellMeanRows(file) ==
    SelectSeq(file.rows,
        LAMBDA row : /\ DictGet(file.header, row, "Day") # <<>>
                     /\ IsInt(DictGet(file.header, row, "Day")[1])
                     /\ WellMeanCell(file.header, row) # <<>>
                     /\ IsFloat(WellMeanCell(file.header, row)[1]))

RowDay(file, row) == DictGet(file.header, row, "Day")[1].q.n

read_per_well_means(file) ==
    [day \in {RowDay(file, WellMeanRows(file)[k]) : k \in 1..Len(WellMeanRows(file))} |->
        MapSeq(SelectSeq(WellMeanRows(file), LAMBDA row : RowDay(file, row) = day),
               LAMBDA row : WellMeanCell(file.header, row)[1].q)]

\* lines 46-53
DayStat(day, vals) ==
    LET n == Len(vals)
        sd == IF n >= 2 THEN stdev(vals) ELSE Zero
    IN  [day |-> day, n |-> n, m |-> mean(vals), sd |-> sd, sem |-> DivSqrt(sd, n)]

DayLine(r) ==
    <<IntCell(r.day), IntCell(r.n), Num(Micro(Fmt6(r.m))),
      Num(Micro(FmtRoot6(r.sd))), Num(Micro(FmtRoot6(r.sem)))>>

DAY_HEADER == <<"Day", "N Samples", COL_MEAN_AREA, COL_SD_AREA, COL_SEM_AREA>>

\* s.with_name(s.stem.replace("_sample_averages", "_day_averages") + ".csv")
DayOut(name) == [dir |-> name.dir, stem |-> name.stem, suffix |-> "_day_averages"]

\* one iteration of the loop of write_per_file_day_averages (lines 39-56); the
\* file is opened outside any try, so an unreadable file ends the run
GroupDayAveragesFile ==
    /\ script = "compute_group_day_averages"
    /\ pc = "run"
    /\ idx <= Len(inputs)
    /\ LET s == inputs[idx]
           day_to_means == read_per_well_means(s)
           stats == MapSeq(SortSet(DOMAIN day_to_means,
                                   [p \in (DOMAIN day_to_means) \X (DOMAIN day_to_means) |-> p[1] < p[2]]),
                           LAMBDA day : DayStat(day, day_to_means[day]))
       IN  IF ~s.readable
           THEN /\ pc' = "aborted"
                /\ UNCHANGED <<idx, outputs, nOk>>
           ELSE /\ outputs' = Append(outputs,
                       [name |-> DayOut(s.name), header |-> DAY_HEADER,
                        rows |-> MapSeq(stats, DayLine), stats |-> stats])
                /\ nOk' = nOk + 1
                /\ idx' = idx + 1
                /\ pc' = pc
    /\ UNCHANGED <<script, inputs, nFail, header, buckets, upstream, dirs, original>>

GroupDayAveragesDone ==
    /\ script = "compute_group_day_averages"
    /\ pc = "run"
    /\ idx > Len(inputs)
    /\ pc' = "done"
    /\ UNCHANGED <<script, inputs, idx, outputs, nOk, nFail, header, buckets, upstream, dirs, original>>

\* main, lines 71-74 and the glob of line 34: the files *_sample_averages.csv
\* of Untreated MonoCulture/20k/Averages and .../30k/Averages
InTargets(name) ==
    /\ name.dir \in {<<"Processed_Datasets", "Untreated MonoCulture", s, "Averages">> :
                         s \in {"20k", "30k"}}
    /\ name.suffix = "_sample_averages"

\* compute_group_day_averages.main run after compute_sample_averages: it finds
\* the files that run wrote, sorted(avg_dir.glob("*_sample_averages.csv"))
GroupDayAveragesAfterSamples ==
    /\ script = "compute_sample_averages"
    /\ pc = "done"
    /\ script' = "compute_group_day_averages"
    /\ upstream' = "compute_sample_averages"
    /\ inputs' = LET found == SelectSeq(outputs, LAMBDA o : InTargets(o.name))
                  IN  [k \in 1..Len(found) |-> Written(found[k])]
    /\ idx' = 1
    /\ pc' = "run"
    /\ outputs' = <<>>
    /\ nOk' = 0
    /\ nFail' = 0
    /\ UNCHANGED <<header, buckets, dirs, original>>

-----------------------------------------------------------------------------
(* pandas: read_csv, column selection, groupby (rows whose key is None or   *)
(* NaN are left out of every group) and the mean/std/count/sem aggregations *)

HasCol(hdr, c) == ColIndex(hdr, c) # {}

\* df[c] for one row
PdGet(hdr, row, c) == row[Min(ColIndex(hdr, c))]

\* pd.read_csv raises: the file cannot be read, or holds no header line
ReadCsvRaises(file) == ~file.readable \/ file.header = <<>>

\* a numeric aggregation of column c raises unless every cell is a number
NumericCol(file, c) ==
    \A k \in 1..Len(file.rows) : IsFloat(PdGet(file.header, file.rows[k], c))

RECURSIVE MinR(_)
MinR(vals) ==
    IF Len(vals) = 1 THEN vals[1]
    ELSE LET m == MinR(Tail(vals)) IN IF RLess(vals[1], m) THEN vals[1] ELSE m

RECURSIVE MaxR(_)
MaxR(vals) ==
    IF Len(vals) = 1 THEN vals[1]
    ELSE LET m == MaxR(Tail(vals)) IN IF RLess(m, vals[1]) THEN vals[1] ELSE m

\* 'std': NaN (<<>>) for a group of one, else the rational under the root
PdStd(vals) == IF Len(vals) >= 2 THEN <<stdev(vals)>> ELSE <<>>

\* 'sem': std / sqrt(count), NaN for a group of one
PdSem(vals) == IF Len(vals) >= 2 THEN <<DivSqrt(stdev(vals), Len(vals))>> ELSE <<>>

\* the cell to_csv writes for a standard deviation or error
RootCell(o) == IF o = <<>> THEN NaNCell ELSE Surd(Zero, 1, o[1])

-----------------------------------------------------------------------------
(* Intermittent Data/create_averages.py *)

\* value_col = 'Cells' if 'Cells' in df.columns else 'Area µm^2'
CreateAvgValueCol(hdr) == IF HasCol(hdr, "Cells") THEN "Cells" ELSE COL_AREA

\* df['Image'] or df.groupby(...)[value_col] raises KeyError, or the
\* aggregation meets a cell that is no number
CreateAvgRaises(file) ==
    \/ ~HasCol(file.header, "Image")
    \/ ~HasCol(file.header, CreateAvgValueCol(file.header))
    \/ ~NumericCol(file, CreateAvgValueCol(file.header))

\* the Day, Tile and Well columns of one row (lines 28-30)
RowParts(file, row) == parse_filename_components(CellText(PdGet(file.header, row, "Image")))

RowValue(file, row) == PdGet(file.header, row, CreateAvgValueCol(file.header)).q

\* df.groupby(['Day', 'Well']): the rows that have both keys
DayWellRows(file) ==
    SelectSeq(file.rows,
        LAMBDA row : RowParts(file, row).day # <<>> /\ RowParts(file, row).well # <<>>)

DayWellKey(file, row) ==
    [day |-> RowParts(file, row).day[1], well |-> RowParts(file, row).well[1]]

DayWellKeys(file) ==
    {DayWellKey(file, DayWellRows(file)[k]) : k \in 1..Len(DayWellRows(file))}

\* sort_values(['Day', 'Well'])
DayWellLess(a, b) == a.day < b.day \/ (a.day = b.day /\ StrLess(a.well, b.well))

CreateAvg_create_day_averages(file, out) ==
    LET keys == DayWellKeys(file)
        vals(key) == MapSeq(SelectSeq(DayWellRows(file),
                                      LAMBDA row : DayWellKey(file, row) = key),
                            LAMBDA row : RowValue(file, row))
        stats == MapSeq(SortSet(keys, [p \in keys \X keys |-> DayWellLess(p[1], p[2])]),
                        LAMBDA key : [day |-> key.day, well |-> key.well,
                                      m |-> mean(vals(key)), n |-> Len(vals(key))])
    IN  [name |-> out,
         header |-> <<"Day", "Well", "Average_Cells", "Tile_Count">>,
         rows |-> MapSeq(stats, LAMBDA r : <<IntCell(r.day), Txt(r.well), Num(r.m),
                                            IntCell(r.n)>>),
         stats |-> stats]

\* df.groupby('Well'): the rows that have a well
WellRowsOf(file) == SelectSeq(file.rows, LAMBDA row : RowParts(file, row).well # <<>>)

create_sample_averages(file, out) ==
    LET rowsW == WellRowsOf(file)
        wells == {RowParts(file, rowsW[k]).well[1] : k \in 1..Len(rowsW)}
        vals(w) == MapSeq(SelectSeq(rowsW, LAMBDA row : RowParts(file, row).well[1] = w),
                          LAMBDA row : RowValue(file, row))
        std2(w) == IF PdStd(vals(w)) = <<>> THEN <<>>
                   ELSE <<Centi(FmtRoot(PdStd(vals(w))[1], 2))>>
        stats == MapSeq(SortSet(wells, [p \in wells \X wells |-> StrLess(p[1], p[2])]),
                        LAMBDA w : [well |-> w,
                                    m |-> Centi(Fmt(mean(vals(w)), 2)),
                                    sd |-> std2(w),
                                    n |-> Len(vals(w)),
                                    min |-> Centi(Fmt(MinR(vals(w)), 2)),
                                    max |-> Centi(Fmt(MaxR(vals(w)), 2))])
    IN  [name |-> out,
         header |-> <<"Well", "Average_Cells", "StdDev_Cells", "Total_Measurements",
                      "Min_Cells", "Max_Cells">>,
         rows |-> MapSeq(stats,
                     LAMBDA r : <<Txt(r.well), Num(r.m),
                                  IF r.sd = <<>> THEN NaNCell ELSE Num(r.sd[1]),
                                  IntCell(r.n), Num(r.min), Num(r.max)>>),
         stats |-> stats]

\* os.path.join(averages_path, f"{file_prefix}_sampleaverages.csv")
SampleAvgOut(name) ==
    [dir |-> Append(name.dir, "Averages"), stem |-> name.stem, suffix |-> "_sampleaverages"]

\* one iteration of the loop of process_seeding_density_folder (lines 96-107):
\* nothing catches what read_csv or create_day_averages raises
CreateAveragesFile ==
    /\ script = "create_averages"
    /\ pc = "run"
    /\ idx <= Len(inputs)
    /\ LET f == inputs[idx]
       IN  IF ReadCsvRaises(f) \/ CreateAvgRaises(f)
           THEN /\ pc' = "aborted"
                /\ UNCHANGED <<idx, outputs, nOk>>
           ELSE /\ outputs' = Append(outputs,
                                  CreateAvg_create_day_averages(f, SampleAvgOut(f.name)))
                /\ nOk' = nOk + 1
                /\ idx' = idx + 1
                /\ pc' = pc
    /\ UNCHANGED <<script, inputs, nFail, header, buckets, upstream, original>>
    /\ dirs' = dirs \cup {SampleAvgOut(inputs[idx].name).dir}

CreateAveragesDone ==
    /\ script = "create_averages"
    /\ pc = "run"
    /\ idx > Len(inputs)
    /\ pc' = "done"
    /\ UNCHANGED <<script, inputs, idx, outputs, nOk, nFail, header, buckets, upstream, dirs, original>>

\* create_sample_averages(df, output_path, file_prefix) called on the one
\* file of the run (no loop of the repository calls it)
CreateSampleAverages ==
    /\ script = "create_sample_averages"
    /\ pc = "run"
    /\ idx <= Len(inputs)
    /\ LET f == inputs[idx]
       IN  IF ReadCsvRaises(f) \/ CreateAvgRaises(f)
           THEN /\ pc' = "aborted"
                /\ UNCHANGED <<idx, outputs, nOk>>
           ELSE /\ outputs' = Append(outputs, create_sample_averages(f, SampleAvgOut(f.name)))
                /\ nOk' = nOk + 1
                /\ idx' = idx + 1
                /\ pc' = "done"
    /\ UNCHANGED <<script, inputs, nFail, header, buckets, upstream, original>>
    /\ dirs' = dirs \cup {SampleAvgOut(inputs[idx].name).dir}

-----------------------------------------------------------------------------
(* Intermittent Data/create_day_averages.py *)

\* value_col = 'Average_Cells' if 'Average_Cells' in df.columns else 'Average_Area_um2'
DayAvgValueCol(hdr) ==
    IF HasCol(hdr, "Average_Cells") THEN "Average_Cells" ELSE "Average_Area_um2"

DayAvgRaises(file) ==
    \/ ReadCsvRaises(file)
    \/ ~HasCol(file.header, "Day")
    \/ ~HasCol(file.header, DayAvgValueCol(file.header))
    \/ ~NumericCol(file, DayAvgValueCol(file.header))

\* z_critical = 1.96
z_critical == Rat(196, 100)

\* df.groupby('Day'): the rows whose Day is a number
DayRows(file) == SelectSeq(file.rows, LAMBDA row : IsFloat(PdGet(file.header, row, "Day")))

DayOf(file, row) == PdGet(file.header, row, "Day").q

\* one row of day_stats (lines 31-49); std, sem and margin are the rationals
\* under the root, <<>> when NaN
DayAvgStat(day, vals) ==
    LET sem == PdSem(vals)
        margin == IF sem = <<>> THEN <<>>
                  ELSE <<RMul(RMul(z_critical, z_critical), sem[1])>>
    IN  [day |-> day, m |-> mean(vals), sd |-> PdStd(vals), n |-> Len(vals),
         sem |-> sem, margin |-> margin]

DayAvgLine(r) ==
    <<Num(r.day), Num(r.m), RootCell(r.sd), IntCell(r.n), RootCell(r.sem),
      RootCell(r.margin),
      IF r.margin = <<>> THEN NaNCell ELSE Surd(r.m, -1, r.margin[1]),
      IF r.margin = <<>> THEN NaNCell ELSE Surd(r.m, 1, r.margin[1])>>

DayAvg_create_day_averages(file, out) ==
    LET rowsD == DayRows(file)
        days == {DayOf(file, rowsD[k]) : k \in 1..Len(rowsD)}
        vals(day) == MapSeq(SelectSeq(rowsD, LAMBDA row : DayOf(file, row) = day),
                            LAMBDA row : PdGet(file.header, row, DayAvgValueCol(file.header)).q)
        stats == MapSeq(SortSet(days, [p \in days \X days |-> RLess(p[1], p[2])]),
                        LAMBDA day : DayAvgStat(day, vals(day)))
    IN  [name |-> out,
         header |-> <<"Day", "Mean_Cells", "Std_Dev_Cells", "Sample_Count",
                      "Std_Error_Cells", "CI_95_Margin_Cells", "CI_95_Lower_Cells",
                      "CI_95_Upper_Cells">>,
         rows |-> MapSeq(stats, DayAvgLine),
         stats |-> stats]

\* file_name.replace("_sampleaverages.csv", "_dayaverages.csv")
DayAvgOut(name) == [dir |-> name.dir, stem |-> name.stem, suffix |-> "_dayaverages"]

\* one iteration of the loop of process_directory (lines 71-86)
DayAveragesFile ==
    /\ script = "create_day_averages"
    /\ pc = "run"
    /\ idx <= Len(inputs)
    /\ LET f == inputs[idx]
       IN  IF DayAvgRaises(f)
           THEN \* except Exception: print Error processing
                /\ nFail' = nFail + 1
                /\ UNCHANGED <<outputs, nOk>>
           ELSE /\ outputs' = Append(outputs, DayAvg_create_day_averages(f, DayAvgOut(f.name)))
                /\ nOk' = nOk + 1
                /\ UNCHANGED nFail
    /\ idx' = idx + 1
    /\ UNCHANGED <<script, pc, inputs, header, buckets, upstream, dirs, original>>

DayAveragesDone ==
    /\ script = "create_day_averages"
    /\ pc = "run"
    /\ idx > Len(inputs)
    /\ pc' = "done"
    /\ UNCHANGED <<script, inputs, idx, outputs, nOk, nFail, header, buckets, upstream, dirs, original>>

\* create_day_averages.py run after create_averages.py: process_directory
\* globs the *sampleaverages.csv files that run wrote
DayAveragesAfterCreateAverages ==
    /\ script = "create_averages"
    /\ pc = "done"
    /\ script' = "create_day_averages"
    /\ upstream' = "create_averages"
    /\ inputs' = [k \in 1..Len(outputs) |-> Written(outputs[k])]
    /\ idx' = 1
    /\ pc' = "run"
    /\ outputs' = <<>>
    /\ nOk' = 0
    /\ nFail' = 0
    /\ UNCHANGED <<header, buckets, dirs, original>>

-----------------------------------------------------------------------------
(* process_area_data.py *)

\* the normalisation divisor of line 40
AREA_DIVISOR == 144

\* pd.read_csv raises, or the division meets a cell that is no number
ProcessCsvRaises(file) ==
    \/ ReadCsvRaises(file)
    \/ (HasCol(file.header, COL_AREA) /\ ~NumericCol(file, COL_AREA))

\* the division without the rename of the column
process_csv_file_norename(file, out) ==
    LET c == Min(ColIndex(file.header, COL_AREA))
    IN  [name |-> out,
         header |-> file.header,
         rows |-> MapSeq(file.rows,
                     LAMBDA row : [k \in 1..Len(row) |->
                                      IF k = c THEN Num(RDivInt(row[k].q, AREA_DIVISOR))
                                      ELSE row[k]]),
         stats |-> <<>>]

\* lines 40-43: df['Area µm^2'] / 144, then rename(columns={'Area µm^2': 'Cells'})
process_csv_file(file, out) ==
    LET c == Min(ColIndex(file.header, COL_AREA))
    IN  [name |-> out,
         header |-> [k \in 1..Len(file.header) |->
                        IF file.header[k] = COL_AREA THEN "Cells" ELSE file.header[k]],
         rows |-> MapSeq(file.rows,
                     LAMBDA row : [k \in 1..Len(row) |->
                                      IF k = c THEN Num(RDivInt(row[k].q, AREA_DIVISOR))
                                      ELSE row[k]]),
         stats |-> <<>>]

\* processed_dir / Path(csv_file).relative_to(datasets_dir)
ProcessedOut(name) == [name EXCEPT !.dir = <<"Processed_Datasets">> \o Tail(name.dir)]

\* one iteration of the loop of main (lines 93-103): process_csv_file returns
\* False for a missing column and for anything raised
ProcessAreaFile ==
    /\ script = "process_area_data"
    /\ pc = "run"
    /\ idx <= Len(inputs)
    /\ LET f == inputs[idx]
       IN  IF ProcessCsvRaises(f) \/ ~HasCol(f.header, COL_AREA)
           THEN /\ nFail' = nFail + 1
                /\ UNCHANGED <<outputs, nOk>>
           ELSE /\ outputs' = Append(outputs, process_csv_file(f, ProcessedOut(f.name)))
                /\ nOk' = nOk + 1
                /\ UNCHANGED nFail
    /\ idx' = idx + 1
    /\ UNCHANGED <<script, pc, inputs, header, buckets, upstream, original>>
    /\ dirs' = IF ProcessCsvRaises(inputs[idx]) \/ ~HasCol(inputs[idx].header, COL_AREA)
                THEN dirs
                ELSE dirs \cup {ProcessedOut(inputs[idx].name).dir}

ProcessAreaDone ==
    /\ script = "process_area_data"
    /\ pc = "run"
    /\ idx > Len(inputs)
    /\ pc' = "done"
    /\ UNCHANGED <<script, inputs, idx, outputs, nOk, nFail, header, buckets, upstream, dirs, original>>

-----------------------------------------------------------------------------
(* Untreated MonoCulture/split_untreated_monoculture.py *)

\* WELL_RE = re.compile(r"_([AB])([1-6])\.tif$", re.IGNORECASE)
SPLIT_WELL_RE(s) ==
    {i \in 1..Len(s) :
        /\ s[i] = "_"
        /\ i + 2 <= Len(s)
        /\ Upper(s[i + 1]) \in {"A", "B"}
        /\ s[i + 2] \in {"1", "2", "3", "4", "5", "6"}
        /\ LitAtIC(s, i + 3, TIF)
        /\ AtEnd(s, i + 7)}

classify_image(image_name) ==
    LET m == SPLIT_WELL_RE(image_name)
        row == Upper(image_name[Min(m) + 1])
        col == DigitVal[image_name[Min(m) + 2]]
    IN  IF m = {} THEN <<>>
        ELSE << [seeding |-> IF row = "A" THEN "20k" ELSE "30k",
                 line |-> IF col \in {1, 2, 3} THEN "A2780Naive" ELSE "A2780cis"] >>

\* the four outputs, in the order they are written (lines 106-111)
SplitGroups ==
    << [seeding |-> "20k", line |-> "A2780Naive"],
       [seeding |-> "20k", line |-> "A2780cis"],
       [seeding |-> "30k", line |-> "A2780Naive"],
       [seeding |-> "30k", line |-> "A2780cis"] >>

EmptyBuckets == [g \in {SplitGroups[k] : k \in 1..4} |-> <<>>]

\* the rows of one file that the loop of lines 92-99 appends to bucket g
SplitKept(file, expected_cols, g) ==
    SelectSeq(file.rows,
        LAMBDA row : /\ row # <<>>
                     /\ Len(row) = expected_cols
                     /\ classify_image(CellText(row[1])) = <<g>>)

\* rows.sort(key=lambda r: r[0]): stable
RECURSIVE InsertRow(_, _)
InsertRow(sorted, row) ==
    IF sorted = <<>> THEN <<row>>
    ELSE IF StrLess(CellText(row[1]), CellText(sorted[1][1])) THEN <<row>> \o sorted
    ELSE <<sorted[1]>> \o InsertRow(Tail(sorted), row)

RECURSIVE SortRows(_)
SortRows(rows) ==
    IF rows = <<>> THEN <<>>
    ELSE InsertRow(SortRows(SubSeq(rows, 1, Len(rows) - 1)), rows[Len(rows)])

\* out_root / seeding / f"{line}.csv"
SplitOut(g) ==
    [dir |-> <<"Processed_Datasets", "Untreated MonoCulture", g.seeding>>,
     stem |-> g.line, suffix |-> ""]

\* lines 59-60: both output directories are made before anything is read
SplitDirs == {SplitOut(SplitGroups[k]).dir : k \in 1..4}

\* one iteration of the loop over sorted(dataset_dir.glob("*.csv")), lines
\* 73-99; reading is outside any try, so an unreadable file ends the run
SplitReadFile ==
    /\ script = "split_untreated_monoculture"
    /\ pc = "run"
    /\ idx <= Len(inputs)
    /\ LET f == inputs[idx]
           hdr == IF header = <<>> THEN <<f.header>> ELSE header
       IN  IF ~f.readable
           THEN /\ pc' = "aborted"
                /\ UNCHANGED <<idx, header, buckets>>
           ELSE IF f.header = <<>>
           THEN \* StopIteration: continue
                /\ idx' = idx + 1
                /\ UNCHANGED <<pc, header, buckets>>
           ELSE /\ header' = hdr
                /\ buckets' = [g \in DOMAIN buckets |->
                                  buckets[g] \o SplitKept(f, Len(hdr[1]), g)]
                /\ idx' = idx + 1
                /\ pc' = pc
    /\ UNCHANGED <<script, inputs, outputs, nOk, nFail, upstream, original>>
    /\ dirs' = dirs \cup SplitDirs

\* lines 101-123: nothing to write without a header, else the four files
SplitWrite ==
    /\ script = "split_untreated_monoculture"
    /\ pc = "run"
    /\ idx > Len(inputs)
    /\ IF header = <<>>
       THEN UNCHANGED <<outputs, buckets>>
       ELSE /\ buckets' = [g \in DOMAIN buckets |-> SortRows(buckets[g])]
            /\ outputs' = [k \in 1..4 |->
                              [name |-> SplitOut(SplitGroups[k]), header |-> header[1],
                               rows |-> SortRows(buckets[SplitGroups[k]]), stats |-> <<>>]]
    /\ pc' = "done"
    /\ UNCHANGED <<script, inputs, idx, nOk, nFail, header, upstream, original>>
    /\ dirs' = dirs \cup SplitDirs

-----------------------------------------------------------------------------
(* fix_processed_headers.py *)

\* RENAMES (lines 23-41)
RENAMES ==
    (COL_AREA :> "Cells") @@ (COL_MEAN_AREA :> "Mean Cells")
        @@ (COL_SD_AREA :> "SD Cells") @@ (COL_SEM_AREA :> "SEM Cells")
        @@ ("Average_Area_um2" :> "Average_Cells") @@ ("StdDev_Area_um2" :> "StdDev_Cells")
        @@ ("Min_Area_um2" :> "Min_Cells") @@ ("Max_Area_um2" :> "Max_Cells")
        @@ ("Mean_Area_um2" :> "Mean_Cells") @@ ("Std_Dev_um2" :> "Std_Dev_Cells")
        @@ ("Std_Error_um2" :> "Std_Error_Cells")
        @@ ("CI_95_Margin_um2" :> "CI_95_Margin_Cells")
        @@ ("CI_95_Lower_um2" :> "CI_95_Lower_Cells")
        @@ ("CI_95_Upper_um2" :> "CI_95_Upper_Cells")

RenamesGet_default(h) == IF h \in DOMAIN RENAMES THEN RENAMES[h] ELSE "Cells"

\* RENAMES.get(h, h)
RenamesGet(h) == IF h \in DOMAIN RENAMES THEN RENAMES[h] ELSE h

\* new_header of line 52
new_header(file) == MapSeq(file.header, RenamesGet)

\* rewrite_csv_headers (lines 44-63): the value returned.  A file that cannot
\* be decoded raises in list(reader), which the except turns into False; a file
\* without a first row, or whose first row is blank, returns False as well
rewrite_csv_headers(file) ==
    /\ file.readable
    /\ file.header # <<>>
    /\ new_header(file) # file.header

\* one iteration of the loop of main (lines 83-85): a file that is rewritten
\* keeps its path and its rows[1:]
FixHeadersFile ==
    /\ script = "fix_processed_headers"
    /\ pc = "run"
    /\ idx <= Len(inputs)
    /\ LET p == inputs[idx]
       IN  IF rewrite_csv_headers(p)
           THEN /\ outputs' = Append(outputs, [name |-> p.name, header |-> new_header(p),
                                               rows |-> p.rows, stats |-> <<>>])
                /\ nOk' = nOk + 1
           ELSE UNCHANGED <<outputs, nOk>>
    /\ idx' = idx + 1
    /\ UNCHANGED <<script, pc, inputs, nFail, header, buckets, upstream, dirs, original>>

\* print Done. Updated headers in {changed} files
FixHeadersDone ==
    /\ script = "fix_processed_headers"
    /\ pc = "run"
    /\ idx > Len(inputs)
    /\ pc' = "done"
    /\ UNCHANGED <<script, inputs, idx, outputs, nOk, nFail, header, buckets, upstream, dirs,
                   original>>

\* the k-th file as the run left it
Fixed(k) ==
    LET hits == {i \in 1..Len(outputs) : outputs[i].name = inputs[k].name}
    IN  IF hits = {} THEN inputs[k] ELSE Written(outputs[CHOOSE i \in hits : TRUE])

\* the script that aggregates the files of a folder of Processed_Datasets
ConsumerOf(name) ==
    CASE name.suffix = "_sample_averages" -> "compute_group_day_averages"
      [] name.suffix = "_sampleaverages" -> "create_day_averages"
      [] name.suffix = "" /\ name.dir[2] = "Intermittent Data" -> "create_averages"
      [] OTHER -> "compute_sample_averages"

\* an aggregating script run after fix_processed_headers.py on the same files;
\* original keeps them as they were before the headers were fixed
AggregateAfterFix ==
    /\ script = "fix_processed_headers"
    /\ pc = "done"
    /\ inputs # <<>>
    /\ script' = ConsumerOf(inputs[1].name)
    /\ upstream' = "fix_processed_headers"
    /\ original' = inputs
    /\ inputs' = [k \in 1..Len(inputs) |-> Fixed(k)]
    /\ idx' = 1
    /\ pc' = "run"
    /\ outputs' = <<>>
    /\ nOk' = 0
    /\ nFail' = 0
    /\ UNCHANGED <<header, buckets, dirs>>

-----------------------------------------------------------------------------
(* split_seeding_data.py *)

W(a, b) == <<a, b>>

\* file_well_mapping (lines 13-30), in the order the loop of line 72 takes it
file_well_mapping ==
    << [file |-> "A2780cisT",
        wells20k |-> {W("C", "4"), W("C", "5"), W("C", "6")},
        wells30k |-> {W("D", "4"), W("D", "5"), W("D", "6")}],
       [file |-> "A2780cisUT",
        wells20k |-> {W("A", "4"), W("A", "5"), W("A", "6")},
        wells30k |-> {W("B", "4"), W("B", "5"), W("B", "6")}],
       [file |-> "A2780UT",
        wells20k |-> {W("A", "1"), W("A", "2"), W("A", "3")},
        wells30k |-> {W("B", "1"), W("B", "2"), W("B", "3")}],
       [file |-> "A2780T",
        wells20k |-> {W("C", "1"), W("C", "2"), W("C", "3")},
        wells30k |-> {W("D", "1"), W("D", "2"), W("D", "3")}] >>

\* filename.split('_')
RECURSIVE SplitUnderscore(_)
SplitUnderscore(s) ==
    LET us == {k \in 1..Len(s) : s[k] = "_"}
    IN  IF us = {} THEN <<s>>
        ELSE <<SubSeq(s, 1, Min(us) - 1)>> \o SplitUnderscore(SubSeq(s, Min(us) + 1, Len(s)))

EndsWith(s, lit) == LitAt(s, Len(s) - Len(lit) + 1, lit)

\* part.replace('.tif', '')
RECURSIVE RemoveAll(_, _)
RemoveAll(s, lit) ==
    IF s = <<>> THEN <<>>
    ELSE IF LitAt(s, 1, lit) THEN RemoveAll(SubSeq(s, Len(lit) + 1, Len(s)), lit)
    ELSE <<s[1]>> \o RemoveAll(Tail(s), lit)

extract_well_from_filename(filename) ==
    LET parts == SplitUnderscore(filename)
        hits == {k \in 1..Len(parts) : EndsWith(parts[k], TIF)}
    IN  IF hits = {} THEN <<>> ELSE <<RemoveAll(parts[Min(hits)], TIF)>>

\* the filter on the well forgotten: every row with a well is kept
RowsOfWells_any(file, wells) ==
    SelectSeq(file.rows,
        LAMBDA row :
            extract_well_from_filename(CellText(PdGet(file.header, row, "Image"))) # <<>>)

\* df[df['Well'].isin(wells)] and drop('Well', axis=1): the rows and their
\* columns are those read
RowsOfWells(file, wells) ==
    SelectSeq(file.rows,
        LAMBDA row :
            LET w == extract_well_from_filename(CellText(PdGet(file.header, row, "Image")))
            IN  w # <<>> /\ w[1] \in wells)

SeedingOut(name, folder) == [name EXCEPT !.dir = Append(name.dir, folder)]

\* nothing catches what read_csv or df['Image'] raises in split_csv_by_wells
SplitSeedingRaises(file) == ReadCsvRaises(file) \/ ~HasCol(file.header, "Image")

\* one iteration of the loop of lines 72-77
SplitSeedingFile ==
    /\ script = "split_seeding_data"
    /\ pc = "run"
    /\ idx <= Len(inputs)
    /\ LET f == inputs[idx]
           well_config == file_well_mapping[idx]
           out20k == [name |-> SeedingOut(f.name, "20k_seeding_density"),
                      header |-> f.header,
                      rows |-> RowsOfWells(f, well_config.wells20k), stats |-> <<>>]
           out30k == [name |-> SeedingOut(f.name, "30k_seeding_density"),
                      header |-> f.header,
                      rows |-> RowsOfWells(f, well_config.wells30k), stats |-> <<>>]
       IN  IF ~f.exists
           THEN \* print Warning: not found
                /\ idx' = idx + 1
                /\ UNCHANGED <<pc, outputs, nOk>>
           ELSE IF SplitSeedingRaises(f)
           THEN /\ pc' = "aborted"
                /\ UNCHANGED <<idx, outputs, nOk>>
           ELSE IF out20k.name.dir \notin dirs
           THEN \* to_csv of line 63 raises OSError: nothing made the folder
                /\ pc' = "aborted"
                /\ UNCHANGED <<idx, outputs, nOk>>
           ELSE IF out30k.name.dir \notin dirs
           THEN \* to_csv of line 64 raises after line 63 has written
                /\ outputs' = Append(outputs, out20k)
                /\ pc' = "aborted"
                /\ UNCHANGED <<idx, nOk>>
           ELSE /\ outputs' = outputs \o <<out20k, out30k>>
                /\ nOk' = nOk + 1
                /\ idx' = idx + 1
                /\ pc' = pc
    /\ UNCHANGED <<script, inputs, nFail, header, buckets, upstream, dirs, original>>

\* print Data splitting completed!
SplitSeedingDone ==
    /\ script = "split_seeding_data"
    /\ pc = "run"
    /\ idx > Len(inputs)
    /\ pc' = "done"
    /\ UNCHANGED <<script, inputs, idx, outputs, nOk, nFail, header, buckets, upstream, dirs, original>>

-----------------------------------------------------------------------------
(* The inputs of a run.  Image names are built from a day, a tile and a     *)
(* well segment, each present in a documented form, in a variant form or    *)
(* absent; the parsers see the characters only.                             *)

MaxRows == 3
MaxFiles == 2

PREFIX == <<"X">>
MID == <<"_", "F", "I", "T", "C">>

DaySegs ==
    { <<"_", "D", "a", "y", "5">>,
      <<"_", "D", "a", "y", "1", "0">>,
      <<"_", "d", "a", "y", "5">>,
      <<"D", "a", "y", "7">>,
      <<>> }

TileSegs ==
    { <<"_", "T", "i", "l", "e", "-", "0">>,
      <<"_", "T", "i", "l", "e", "-", "1", "2">>,
      <<>> }

WellSegs ==
    { <<"_", "A", "2", ".", "t", "i", "f">>,
      <<"_", "B", "4", ".", "t", "i", "f">>,
      <<"_", "C", "4", ".", "t", "i", "f">>,
      <<"_", "a", "2", ".", "t", "i", "f">>,
      <<"_", "A", "7", ".", "t", "i", "f">>,
      <<"_", "A", "1", "2", ".", "t", "i", "f">>,
      <<"_", "A", "2", ".", "T", "I", "F">>,
      <<"_", "B", "4", ".", "t", "i", "f", "\n">>,
      <<"_", "A", "2", ".", "p", "n", "g">>,
      <<"A", "2", ".", "t", "i", "f">>,
      <<".", "t", "i", "f">> }

Image(d, t, w) == PREFIX \o d \o MID \o t \o w

AllImages == {Image(d, t, w) : d \in DaySegs, t \in TileSegs, w \in WellSegs}

SeqsUpTo(S, n) == UNION {[1..k -> S] : k \in 0..n}

\* a value cell that float() rejects
NA == Txt(<<"n", "a">>)

FileNames ==
    << [dir |-> <<"20k">>, stem |-> "A2780Naive", suffix |-> ""],
       [dir |-> <<"20k">>, stem |-> "A2780cis", suffix |-> ""],
       [dir |-> <<"30k">>, stem |-> "A2780Naive", suffix |-> ""],
       [dir |-> <<"30k">>, stem |-> "A2780cis", suffix |-> ""] >>

\* the files of a run: content cs[i] under the i-th name below root
MkBatch(cs, root, suffix) ==
    [i \in 1..Len(cs) |->
        File([dir |-> root \o FileNames[i].dir, stem |-> FileNames[i].stem,
              suffix |-> suffix], cs[i])]

\* every run of one file of One, and every run of 2..MaxFiles files of Few
Batches(One, Few, root, suffix) ==
    {MkBatch(<<c>>, root, suffix) : c \in One}
        \cup {MkBatch(cs, root, suffix) : cs \in UNION {[1..k -> Few] : k \in 2..MaxFiles}}
        \cup {<<>>}

\* tiles of the Untreated MonoCulture files: Image, Cells
RAW_HEADER == <<"Image", "Cells">>

StatImages ==
    { Image(<<"_", "D", "a", "y", "5">>, <<"_", "T", "i", "l", "e", "-", "0">>,
            <<"_", "A", "2", ".", "t", "i", "f">>),
      Image(<<"_", "D", "a", "y", "5">>, <<"_", "T", "i", "l", "e", "-", "0">>,
            <<"_", "B", "4", ".", "t", "i", "f">>),
      Image(<<"_", "D", "a", "y", "1", "0">>, <<"_", "T", "i", "l", "e", "-", "0">>,
            <<"_", "A", "2", ".", "t", "i", "f">>) }

NoDayImage == Image(<<>>, <<"_", "T", "i", "l", "e", "-", "0">>,
                    <<"_", "A", "2", ".", "t", "i", "f">>)

StatRows ==
    {<<Txt(i), IntCell(v)>> : i \in StatImages, v \in {10, 12}}
        \cup {<<Txt(NoDayImage), IntCell(10)>>}
        \cup {<<Txt(CHOOSE i \in StatImages : TRUE), NA>>}

ParseContents == {Content(RAW_HEADER, <<<<Txt(i), IntCell(10)>>>>) : i \in AllImages}

StatContents == {Content(RAW_HEADER, rows) : rows \in SeqsUpTo(StatRows, MaxRows)}

FewRaw ==
    { Unreadable, EmptyFile,
      Content(RAW_HEADER, <<<<Txt(NoDayImage), IntCell(10)>>>>),
      Content(RAW_HEADER, <<<<Txt(CHOOSE i \in StatImages : TRUE), IntCell(10)>>,
                            <<Txt(CHOOSE i \in StatImages : TRUE), IntCell(12)>>>>),
      Content(RAW_HEADER, <<<<Txt(CHOOSE i \in StatImages : TRUE)>>>>) }

\* per-well sample averages as compute_group_day_averages expects them
LEGACY_SAMPLE_HEADER == <<"Day", "Well", "N Tiles", COL_MEAN_AREA, COL_SD_AREA, COL_SEM_AREA>>

WellRow(day, m) ==
    <<IntCell(day), Txt(<<"A", "1">>), IntCell(1), IntCell(m), Num(Zero), Num(Zero)>>

WellRows ==
    {WellRow(day, m) : day \in {1, 2}, m \in {10, 12}}
        \cup {<<Txt(<<"D", "a", "y">>), Txt(<<"A", "1">>), IntCell(1), IntCell(10),
                Num(Zero), Num(Zero)>>}

WellContents ==
    {Content(h, rows) : h \in {LEGACY_SAMPLE_HEADER, SAMPLE_HEADER,
                               <<"Day", "Well", "N Tiles", "Mean", "SD", "SEM">>},
                        rows \in SeqsUpTo(WellRows, MaxRows)}

FewWell ==
    { Unreadable, EmptyFile,
      Content(LEGACY_SAMPLE_HEADER, <<WellRow(1, 10), WellRow(1, 12)>>) }

\* per-well averages as Intermittent Data/create_day_averages.py reads them
AVG_HEADER == <<"Day", "Well", "Average_Cells", "Tile_Count">>

AvgRow(day, m) == <<IntCell(day), Txt(<<"C", "4">>), IntCell(m), IntCell(1)>>

AvgRows == {AvgRow(day, m) : day \in {1, 2}, m \in {10, 12}}

AvgContents ==
    {Content(h, rows) : h \in {AVG_HEADER, <<"Day", "Well", "Average_Area_um2", "Tile_Count">>},
                        rows \in SeqsUpTo(AvgRows, MaxRows)}

FewAvg ==
    { Unreadable, EmptyFile,
      Content(<<"Well", "Average_Cells">>, <<<<Txt(<<"C", "4">>), IntCell(10)>>>>),
      Content(AVG_HEADER, <<AvgRow(1, 10), AvgRow(1, 12)>>) }

\* tiles of the Intermittent files, some failing in create_averages
FewTiles ==
    { Unreadable,
      Content(<<"Tile", "Cells">>, <<<<IntCell(0), IntCell(10)>>>>),
      Content(<<"Image", COL_AREA>>, <<<<Txt(NoDayImage), IntCell(10)>>>>),
      Content(RAW_HEADER, <<<<Txt(CHOOSE i \in StatImages : TRUE), IntCell(10)>>,
                            <<Txt(CHOOSE i \in StatImages : TRUE), IntCell(12)>>>>),
      Content(RAW_HEADER, <<<<Txt(CHOOSE i \in StatImages : TRUE), NA>>>>) }

\* raw datasets for process_area_data
AreaImage == CHOOSE i \in StatImages : TRUE

AreaRows == {<<Txt(AreaImage), IntCell(v), Txt(<<"n">>)>> : v \in {0, 100, 144, 288}}

AreaContents ==
    {Content(<<"Image", COL_AREA, "Note">>, rows) : rows \in SeqsUpTo(AreaRows, MaxRows)}
        \cup {Content(<<"Note", "Image", COL_AREA>>,
                      <<<<Txt(<<"n">>), Txt(AreaImage), IntCell(v)>>>>) : v \in {0, 100, 144, 288}}

FewArea ==
    { Unreadable, EmptyFile,
      Content(<<"Image", "Cells">>, <<<<Txt(AreaImage), IntCell(2)>>>>),
      Content(<<"Image", COL_AREA>>, <<<<Txt(AreaImage), IntCell(288)>>>>),
      Content(<<"Image", COL_AREA>>, <<<<Txt(AreaImage), NA>>>>) }

\* combined files for split_untreated_monoculture: every well label once, and
\* runs of rows of two or three cells under a header of two or three columns
ClassWellSegs ==
    {<<"_", r, c>> \o suf : r \in {"A", "B", "C", "a", "b"},
                            c \in {"0", "1", "2", "3", "4", "5", "6", "7"},
                            suf \in {TIF}}
        \cup WellSegs

ClassImages ==
    {Image(<<"_", "D", "a", "y", "5">>, <<"_", "T", "i", "l", "e", "-", "0">>, w) :
        w \in ClassWellSegs}

ClassContents == {Content(RAW_HEADER, <<<<Txt(i), IntCell(10)>>>>) : i \in ClassImages}

WellImage(a, b) ==
    Image(<<"_", "D", "a", "y", "5">>, <<"_", "T", "i", "l", "e", "-", "0">>,
          <<"_", a, b>> \o TIF)

SplitRows ==
    { <<Txt(WellImage("A", "2")), IntCell(10)>>,
      <<Txt(WellImage("A", "2")), IntCell(12)>>,
      <<Txt(WellImage("B", "4")), IntCell(10)>>,
      <<Txt(WellImage("C", "4")), IntCell(10)>>,
      <<Txt(WellImage("A", "2")), IntCell(10), Txt(<<"n">>)>> }

SplitContents ==
    {Content(h, rows) : h \in {RAW_HEADER, <<"Image", "Cells", "Note">>},
                        rows \in SeqsUpTo(SplitRows, MaxRows)}

FewSplit ==
    { Unreadable, EmptyFile,
      Content(RAW_HEADER, <<<<Txt(WellImage("B", "4")), IntCell(10)>>,
                            <<Txt(WellImage("A", "2")), IntCell(10)>>>>),
      Content(<<"Image", "Cells", "Note">>,
              <<<<Txt(WellImage("A", "5")), IntCell(10), Txt(<<"n">>)>>>>),
      Content(<<"Tile", "Area">>, <<<<Txt(WellImage("B", "1")), IntCell(12)>>>>) }

\* the four files of file_well_mapping: one of them with any rows and the
\* others absent, or each of them one of a few
SeedRows ==
    {<<Txt(WellImage(a, "4")), IntCell(10)>> : a \in {"A", "B", "C"}}
        \cup {<<Txt(WellImage("A", "2")), IntCell(10)>>,
              <<Txt(<<"C", "4">> \o TIF), IntCell(12)>>}

FewSeed ==
    { Missing, Unreadable,
      Content(<<"Tile", "Cells">>, <<<<IntCell(0), IntCell(10)>>>>),
      Content(RAW_HEADER, <<<<Txt(WellImage("A", "4")), IntCell(10)>>,
                            <<Txt(WellImage("C", "4")), IntCell(10)>>,
                            <<Txt(WellImage("B", "4")), IntCell(12)>>>>) }

SeedName(k) ==
    [dir |-> <<"Processed_Datasets", "Intermittent Data">>,
     stem |-> file_well_mapping[k].file, suffix |-> ""]

SeedInputs ==
    {[k \in 1..4 |-> File(SeedName(k), cs[k])] : cs \in [1..4 -> FewSeed]}
        \cup {[k \in 1..4 |-> File(SeedName(k),
                                   IF k = j THEN Content(RAW_HEADER, rows) ELSE Missing)] :
                  j \in 1..4, rows \in SeqsUpTo(SeedRows, MaxRows)}

UNTREATED == <<"Processed_Datasets", "Untreated MonoCulture">>
INTERMITTENT == <<"Processed_Datasets", "Intermittent Data">>

\* compute_sample_averages.py given paths on its command line (line 109): a
\* file of 20k and the file of 20k/Averages named after it, in either order
ArgvNames ==
    << [dir |-> UNTREATED \o <<"20k">>, stem |-> "A2780Naive", suffix |-> ""],
       [dir |-> UNTREATED \o <<"20k", "Averages">>, stem |-> "A2780Naive",
        suffix |-> "_sample_averages"] >>

ArgvBatches ==
    {[i \in 1..2 |-> File(ArgvNames[IF swap THEN 3 - i ELSE i], cs[i])] :
        cs \in [1..2 -> FewRaw], swap \in BOOLEAN}

\* split_untreated_monoculture.py, lines 131-137: the *.csv files directly in
\* Processed_Datasets/Untreated MonoCulture, or in Datasets/Untreated
\* MonoCulture when the former does not exist, in sorted order
DatasetDirs == {UNTREATED, <<"Datasets", "Untreated MonoCulture">>}

GlobStems == <<"A2780Naive", "A2780cis", "plate1", "plate2">>

GlobBatches(One, Few, dir) ==
    LET Mk(cs) == [i \in 1..Len(cs) |->
                      File([dir |-> dir, stem |-> GlobStems[i], suffix |-> ""], cs[i])]
    IN  {Mk(<<c>>) : c \in One}
            \cup {Mk(cs) : cs \in UNION {[1..k -> Few] : k \in 2..MaxFiles}}
            \cup {<<>>}

\* tiles under Processed_Datasets with the column process_area_data.py makes
\* or the one it reads
FixTiles ==
    {Content(h, rows) :
        h \in {RAW_HEADER, <<"Image", COL_AREA>>},
        rows \in SeqsUpTo({<<Txt(CHOOSE i \in StatImages : TRUE), IntCell(10)>>,
                           <<Txt(CHOOSE i \in StatImages : TRUE), IntCell(12)>>,
                           <<Txt(NoDayImage), IntCell(10)>>}, MaxRows)}

InputsOf(s) ==
    CASE s = "compute_sample_averages" ->
            Batches(ParseContents \cup StatContents, FewRaw, UNTREATED, "")
                \cup ArgvBatches
      [] s = "compute_group_day_averages" ->
            Batches(WellContents, FewWell, UNTREATED, "_sample_averages")
      [] s = "create_averages" ->
            Batches(ParseContents \cup StatContents, FewTiles, INTERMITTENT, "")
      [] s = "create_sample_averages" ->
            {b \in Batches(ParseContents \cup StatContents, FewTiles, INTERMITTENT, "") :
                Len(b) = 1}
      [] s = "create_day_averages" ->
            Batches(AvgContents, FewAvg, INTERMITTENT, "_sampleaverages")
      [] s = "process_area_data" ->
            Batches(AreaContents, FewArea, <<"Datasets">>, "")
      [] s = "split_untreated_monoculture" ->
            UNION {GlobBatches(ClassContents \cup SplitContents, FewSplit, d) :
                       d \in DatasetDirs}
      [] s = "split_seeding_data" -> SeedInputs
      [] s = "fix_processed_headers" ->
            Batches(WellContents, FewWell, UNTREATED, "_sample_averages")
                \cup Batches(AvgContents, FewAvg, INTERMITTENT, "_sampleaverages")
                \cup Batches(FixTiles, FewTiles, INTERMITTENT, "")
                \cup Batches(FixTiles, FewRaw, UNTREATED, "")

Scripts ==
    {"compute_sample_averages", "compute_group_day_averages", "create_averages",
     "create_sample_averages", "create_day_averages", "process_area_data",
     "split_untreated_monoculture", "split_seeding_data", "fix_processed_headers"}

\* the folders the inputs lie in
InputDirs(ins) == {ins[k].name.dir : k \in 1..Len(ins)}

\* the folders a script writes into other than those of its inputs
OutDirs(s, ins) ==
    CASE s = "compute_sample_averages" -> {SampleOut(ins[k].name).dir : k \in 1..Len(ins)}
      [] s \in {"create_averages", "create_sample_averages"} ->
            {SampleAvgOut(ins[k].name).dir : k \in 1..Len(ins)}
      [] s = "process_area_data" -> {ProcessedOut(ins[k].name).dir : k \in 1..Len(ins)}
      [] s = "split_untreated_monoculture" -> SplitDirs
      [] s = "split_seeding_data" ->
            {Append(INTERMITTENT, folder) :
                folder \in {"20k_seeding_density", "30k_seeding_density"}}
      [] OTHER -> {}

\* which of them exist before the run: none or all of them, and for the two
\* folders of split_seeding_data each on its own
DirLayouts(s, ins) ==
    IF s = "split_seeding_data" THEN SUBSET OutDirs(s, ins) ELSE {{}, OutDirs(s, ins)}

Init ==
    /\ script \in Scripts
    /\ inputs \in InputsOf(script)
    /\ pc = "run"
    /\ idx = 1
    /\ outputs = <<>>
    /\ nOk = 0
    /\ nFail = 0
    /\ header = <<>>
    /\ buckets = EmptyBuckets
    /\ upstream = "none"
    /\ original = <<>>
    /\ dirs \in {InputDirs(inputs) \cup d : d \in DirLayouts(script, inputs)}

Next ==
    \/ SampleAveragesFile
    \/ SampleAveragesDone
    \/ GroupDayAveragesFile
    \/ GroupDayAveragesDone
    \/ GroupDayAveragesAfterSamples
    \/ CreateAveragesFile
    \/ CreateAveragesDone
    \/ CreateSampleAverages
    \/ DayAveragesFile
    \/ DayAveragesDone
    \/ DayAveragesAfterCreateAverages
    \/ ProcessAreaFile
    \/ ProcessAreaDone
    \/ SplitReadFile
    \/ SplitWrite
    \/ SplitSeedingFile
    \/ SplitSeedingDone
    \/ FixHeadersFile
    \/ FixHeadersDone
    \/ AggregateAfterFix

Spec == Init /\ [][Next]_vars

-----------------------------------------------------------------------------
(* What the claims speak of.  The tokens of an image name are known from    *)
(* the segments it was built of, not from the parsers.                      *)

\* the segments of an image of AllImages
SegsOf(img) ==
    CHOOSE x \in DaySegs \X TileSegs \X WellSegs : Image(x[1], x[2], x[3]) = img

\* Day<digits>, as re.search(r'Day(\d+)') is documented to find it
DocDay(d) ==
    CASE d = <<"_", "D", "a", "y", "5">> -> <<5>>
      [] d = <<"_", "D", "a", "y", "1", "0">> -> <<10>>
      [] d = <<"D", "a", "y", "7">> -> <<7>>
      [] OTHER -> <<>>

\* _Day<digits>_ in any case, as DAY_RE is documented to find it
DocDayIC(d) ==
    CASE d = <<"_", "D", "a", "y", "5">> -> <<5>>
      [] d = <<"_", "D", "a", "y", "1", "0">> -> <<10>>
      [] d = <<"_", "d", "a", "y", "5">> -> <<5>>
      [] OTHER -> <<>>

\* Tile-<digits>
DocTile(t) ==
    CASE t = <<"_", "T", "i", "l", "e", "-", "0">> -> <<0>>
      [] t = <<"_", "T", "i", "l", "e", "-", "1", "2">> -> <<12>>
      [] OTHER -> <<>>

\* _<capital><digits>.tif, whatever follows it
DocWell(w) ==
    CASE w = <<"_", "A", "2", ".", "t", "i", "f">> -> <<W("A", "2")>>
      [] w = <<"_", "B", "4", ".", "t", "i", "f">> -> <<W("B", "4")>>
      [] w = <<"_", "C", "4", ".", "t", "i", "f">> -> <<W("C", "4")>>
      [] w = <<"_", "A", "7", ".", "t", "i", "f">> -> <<W("A", "7")>>
      [] w = <<"_", "A", "1", "2", ".", "t", "i", "f">> -> <<<<"A", "1", "2">>>>
      [] w = <<"_", "B", "4", ".", "t", "i", "f", "\n">> -> <<W("B", "4")>>
      [] OTHER -> <<>>

\* a final _<A|B><1-6>.tif in any case, a newline allowed after it, the label
\* in capitals
DocWellAB(w) ==
    CASE w = <<"_", "A", "2", ".", "t", "i", "f">> -> <<W("A", "2")>>
      [] w = <<"_", "B", "4", ".", "t", "i", "f">> -> <<W("B", "4")>>
      [] w = <<"_", "a", "2", ".", "t", "i", "f">> -> <<W("A", "2")>>
      [] w = <<"_", "A", "2", ".", "T", "I", "F">> -> <<W("A", "2")>>
      [] w = <<"_", "B", "4", ".", "t", "i", "f", "\n">> -> <<W("B", "4")>>
      [] OTHER -> <<>>

\* the image names of the rows of a file (its first column)
ImagesOf(f) == {CellText(f.rows[k][1]) : k \in 1..Len(f.rows)} \cap AllImages

\* the input a written file was made from; OutName is the script's naming
SrcOf(o, OutName(_)) ==
    inputs[CHOOSE k \in 1..Len(inputs) : OutName(inputs[k].name) = o.name]

RECURSIVE SumN(_)
SumN(stats) == IF stats = <<>> THEN 0 ELSE stats[1].n + SumN(Tail(stats))

DistinctKeys(stats, key(_)) ==
    \A i, j \in 1..Len(stats) : key(stats[i]) = key(stats[j]) => i = j

\* the rows of f whose image has property P
RowsWith(f, P(_)) ==
    {k \in 1..Len(f.rows) : /\ CellText(f.rows[k][1]) \in AllImages
                            /\ P(SegsOf(CellText(f.rows[k][1])))}

\* the input an output of compute_sample_averages was made from, as it was read
SampleSrc(o) ==
    FileAsRead(CHOOSE k \in 1..Len(inputs) : SampleOut(inputs[k].name) = o.name)

ParserScripts == {"compute_sample_averages", "create_averages", "create_sample_averages"}

\* both parsers return the tokens that are there in the form their patterns
\* name, and None for a token that is absent or in another form
C1_ParsersExact ==
    script \in ParserScripts =>
        \A k \in 1..Len(inputs) : \A img \in ImagesOf(inputs[k]) :
            LET x == SegsOf(img)
            IN  /\ parse_filename_components(img) =
                       [day |-> DocDay(x[1]), tile |-> DocTile(x[2]), well |-> DocWell(x[3])]
                /\ parse_day_and_well(img) =
                       IF DocDayIC(x[1]) = <<>> \/ DocWellAB(x[3]) = <<>> THEN <<>>
                       ELSE << [day |-> DocDayIC(x[1])[1], well |-> DocWellAB(x[3])[1]] >>

\* every record counts the rows that carry its key, and only rows that carry
\* every key the aggregate groups by are counted
C1_KeyedRowsOnly ==
    /\ script = "create_averages" =>
          \A k \in 1..Len(outputs) :
              LET o == outputs[k]
                  f == SrcOf(o, SampleAvgOut)
              IN  /\ DistinctKeys(o.stats, LAMBDA r : <<r.day, r.well>>)
                  /\ \A i \in 1..Len(o.stats) :
                        o.stats[i].n = Cardinality(RowsWith(f,
                            LAMBDA x : /\ DocDay(x[1]) = <<o.stats[i].day>>
                                       /\ DocWell(x[3]) = <<o.stats[i].well>>))
                  /\ SumN(o.stats) = Cardinality(RowsWith(f,
                            LAMBDA x : DocDay(x[1]) # <<>> /\ DocWell(x[3]) # <<>>))
    /\ script = "create_sample_averages" =>
          \A k \in 1..Len(outputs) :
              LET o == outputs[k]
                  f == SrcOf(o, SampleAvgOut)
              IN  /\ DistinctKeys(o.stats, LAMBDA r : r.well)
                  /\ \A i \in 1..Len(o.stats) :
                        o.stats[i].n = Cardinality(RowsWith(f,
                            LAMBDA x : DocWell(x[3]) = <<o.stats[i].well>>))
                  /\ SumN(o.stats) = Cardinality(RowsWith(f, LAMBDA x : DocWell(x[3]) # <<>>))
    /\ script = "compute_sample_averages" =>
          \A k \in 1..Len(outputs) :
              LET o == outputs[k]
                  f == SampleSrc(o)
                  valued == {j \in 1..Len(f.rows) : Len(f.rows[j]) >= 2 /\ IsFloat(f.rows[j][2])}
              IN  /\ DistinctKeys(o.stats, LAMBDA r : <<r.day, r.well>>)
                  /\ \A i \in 1..Len(o.stats) :
                        o.stats[i].n = Cardinality(valued \cap RowsWith(f,
                            LAMBDA x : /\ DocDayIC(x[1]) = <<o.stats[i].day>>
                                       /\ DocWellAB(x[3]) = <<o.stats[i].well>>))
                  /\ SumN(o.stats) = Cardinality(valued \cap RowsWith(f,
                            LAMBDA x : DocDayIC(x[1]) # <<>> /\ DocWellAB(x[3]) # <<>>))

\* C1 (amended): each parser returns exactly the Day, Tile and Well tokens that
\* are present in the form its pattern names (parse_filename_components:
\* Day<digits>, Tile-<digits>, _<capital><digits>.tif; parse_day_and_well:
\* _Day<digits>_ and a final _<A|B><1-6>.tif in any case, the well in capitals,
\* None unless both are found); a row is left out of an aggregate exactly when
\* a key that aggregate groups by is missing: Day or Well for
\* create_day_averages and per_day_sample_stats, Well for
\* create_sample_averages.
C1_ParsedKeysDecide == C1_ParsersExact /\ C1_KeyedRowsOnly

\* a file of two rows, one without a Day, has made one record of one row
C1_Witness ==
    /\ script = "create_averages"
    /\ Len(outputs) = 1
    /\ Len(inputs[1].rows) = 2
    /\ Len(outputs[1].stats) = 1
    /\ outputs[1].stats[1].n = 1
    /\ \E k \in 1..2 : CellText(inputs[1].rows[k][1]) = NoDayImage

\* the image carries all three documented tokens
AllTokens(x) == DocDay(x[1]) # <<>> /\ DocTile(x[2]) # <<>> /\ DocWell(x[3]) # <<>>

AllTokensAB(x) == DocDayIC(x[1]) # <<>> /\ DocTile(x[2]) # <<>> /\ DocWellAB(x[3]) # <<>>

\* C1 as claimed: the parsers return the tokens, and a row whose image lacks
\* one of the three tokens is counted in no record of any aggregate
C1_Original ==
    /\ C1_ParsersExact
    /\ script = "create_averages" =>
          \A k \in 1..Len(outputs) :
              SumN(outputs[k].stats) =
                  Cardinality(RowsWith(SrcOf(outputs[k], SampleAvgOut), AllTokens))
    /\ script = "create_sample_averages" =>
          \A k \in 1..Len(outputs) :
              SumN(outputs[k].stats) =
                  Cardinality(RowsWith(SrcOf(outputs[k], SampleAvgOut), AllTokens))
    /\ script = "compute_sample_averages" =>
          \A k \in 1..Len(outputs) :
              SumN(outputs[k].stats) <=
                  Cardinality(RowsWith(SampleSrc(outputs[k]), AllTokensAB))

-----------------------------------------------------------------------------
\* the statistics as the textbook defines them, in two passes

\* the squared deviations of vals from m, summed
RECURSIVE SumSqDev(_, _)
SumSqDev(vals, m) ==
    IF vals = <<>> THEN Zero
    ELSE RAdd(RMul(RSub(vals[1], m), RSub(vals[1], m)), SumSqDev(Tail(vals), m))

ArithMean(vals) == RDivInt(SumR(vals), Len(vals))

\* the square of the sample (n-1) standard deviation
SampleVariance(vals) == RDivInt(SumSqDev(vals, ArithMean(vals)), Len(vals) - 1)

\* the rows of f that parse: an image with a Day and a Well, a numeric value
ParseableRows(f) ==
    {j \in 1..Len(f.rows) :
        /\ Len(f.rows[j]) >= 2
        /\ IsFloat(f.rows[j][2])
        /\ parse_day_and_well(CellText(f.rows[j][1])) # <<>>}

KeyOfRow(f, j) == parse_day_and_well(CellText(f.rows[j][1]))[1]

\* the values of the rows of f with the key, in the order of the file
ValuesOfKey(f, key) ==
    MapSeq(SelectSeq([j \in 1..Len(f.rows) |-> j],
                     LAMBDA j : j \in ParseableRows(f) /\ KeyOfRow(f, j) = key),
           LAMBDA j : f.rows[j][2].q)

C2_ExampleImage == Image(<<"_", "D", "a", "y", "5">>, <<"_", "T", "i", "l", "e", "-", "0">>,
                         <<"_", "A", "2", ".", "t", "i", "f">>)

C2_ExampleRow ==
    <<IntCell(5), Txt(W("A", "2")), IntCell(2), Num(Rat(11, 1)), Num(Micro(1414214)),
      Num(Rat(1, 1))>>

\* the file holds the two rows of the example and nothing else that parses
C2_ExampleInput(f) ==
    /\ Cardinality(ParseableRows(f)) = 2
    /\ \A j \in ParseableRows(f) : CellText(f.rows[j][1]) = C2_ExampleImage
    /\ {f.rows[j][2].q : j \in ParseableRows(f)} = {Rat(10, 1), Rat(12, 1)}

\* C2: per_day_sample_stats writes exactly one row per distinct (Day, Well)
\* key among the parseable rows; its N Tiles is the number of rows with the
\* key, its Mean their arithmetic mean and its SD their sample (n-1) standard
\* deviation, to six decimals; the rows X_Day5_..._A2.tif with 10 and 12 make
\* the single row 5, A2, 2, 11.000000, 1.414214, 1.000000.
C2_OneRowPerKey ==
    script = "compute_sample_averages" =>
        \A k \in 1..Len(outputs) :
            LET o == outputs[k]
                f == SampleSrc(o)
                keys == {KeyOfRow(f, j) : j \in ParseableRows(f)}
            IN  /\ Len(o.rows) = Cardinality(keys)
                /\ \A key \in keys :
                      \E i \in 1..Len(o.rows) :
                          LET vals == ValuesOfKey(f, key)
                          IN  /\ o.rows[i][1] = IntCell(key.day)
                              /\ o.rows[i][2] = Txt(key.well)
                              /\ o.rows[i][3] = IntCell(Len(vals))
                              /\ o.rows[i][4] = Num(Micro(Fmt6(ArithMean(vals))))
                              /\ Len(vals) >= 2 =>
                                    o.rows[i][5] = Num(Micro(FmtRoot6(SampleVariance(vals))))
                /\ C2_ExampleInput(f) => o.rows = <<C2_ExampleRow>>

\* the example has been written
C2_Witness ==
    /\ script = "compute_sample_averages"
    /\ \E k \in 1..Len(outputs) :
          /\ C2_ExampleInput(SampleSrc(outputs[k]))
          /\ outputs[k].rows = <<C2_ExampleRow>>

-----------------------------------------------------------------------------
\* 1.96 squared, for the margins kept as the rational under the root
C3_ZSquared == Rat(38416, 10000)

\* C3: in every record written for a group of n >= 2 values by
\* per_day_sample_stats, write_per_file_day_averages and the Intermittent
\* create_day_averages, SEM = SD / sqrt(n) (SEM^2 * n = SD^2), the SEM written
\* is that value, and the confidence margin written is 1.96 * SEM, the bounds
\* Mean -/+ that margin.
C3_SemAndMargin ==
    /\ script \in {"compute_sample_averages", "compute_group_day_averages"} =>
          \A k \in 1..Len(outputs) : \A i \in 1..Len(outputs[k].stats) :
              LET r == outputs[k].stats[i]
                  row == outputs[k].rows[i]
              IN  r.n >= 2 =>
                      /\ RMul(r.sem, Rat(r.n, 1)) = r.sd
                      /\ row[Len(row) - 1] = Num(Micro(FmtRoot6(r.sd)))
                      /\ row[Len(row)] = Num(Micro(FmtRoot6(RDivInt(r.sd, r.n))))
    /\ script = "create_day_averages" =>
          \A k \in 1..Len(outputs) : \A i \in 1..Len(outputs[k].stats) :
              LET r == outputs[k].stats[i]
                  row == outputs[k].rows[i]
              IN  r.n >= 2 =>
                      /\ r.sd # <<>> /\ r.sem # <<>> /\ r.margin # <<>>
                      /\ RMul(r.sem[1], Rat(r.n, 1)) = r.sd[1]
                      /\ r.margin[1] = RMul(C3_ZSquared, r.sem[1])
                      /\ row[3] = Surd(Zero, 1, r.sd[1])
                      /\ row[5] = Surd(Zero, 1, RDivInt(r.sd[1], r.n))
                      /\ row[6] = Surd(Zero, 1, RMul(C3_ZSquared, RDivInt(r.sd[1], r.n)))
                      /\ row[7] = Surd(r.m, -1, r.margin[1])
                      /\ row[8] = Surd(r.m, 1, r.margin[1])

\* a day of two samples that differ has been written with its margin
C3_Witness ==
    /\ script = "create_day_averages"
    /\ \E k \in 1..Len(outputs) : \E i \in 1..Len(outputs[k].stats) :
          /\ outputs[k].stats[i].n = 2
          /\ outputs[k].stats[i].sd # <<Zero>>
          /\ outputs[k].stats[i].margin # <<>>

-----------------------------------------------------------------------------
\* C4: in every record written for a group of exactly one value the SD and
\* SEM (and the confidence fields made of them) are 0.0, never NaN or empty,
\* in per_day_sample_stats, write_per_file_day_averages and the Intermittent
\* create_day_averages.
C4_SingleValueZero ==
    /\ script \in {"compute_sample_averages", "compute_group_day_averages"} =>
          \A k \in 1..Len(outputs) : \A i \in 1..Len(outputs[k].stats) :
              LET r == outputs[k].stats[i]
                  row == outputs[k].rows[i]
              IN  r.n = 1 =>
                      /\ r.sd = Zero /\ r.sem = Zero
                      /\ row[Len(row) - 1] = Num(Zero)
                      /\ row[Len(row)] = Num(Zero)
    /\ script = "create_day_averages" =>
          \A k \in 1..Len(outputs) : \A i \in 1..Len(outputs[k].stats) :
              LET r == outputs[k].stats[i]
                  row == outputs[k].rows[i]
              IN  r.n = 1 =>
                      /\ r.sd = <<Zero>> /\ r.sem = <<Zero>> /\ r.margin = <<Zero>>
                      /\ \A c \in {3, 5, 6, 7, 8} : row[c] # NaNCell

-----------------------------------------------------------------------------
(* The splitters *)

\* how often row occurs in rows
Count(rows, row) == Cardinality({i \in 1..Len(rows) : rows[i] = row})

\* the places of the rows of the files fs
Places(fs) == UNION {{<<k, i>> : i \in 1..Len(fs[k].rows)} : k \in 1..Len(fs)}

\* how often the files fs hold row under the columns hdr
CountIn(fs, hdr, row) ==
    Cardinality({p \in Places(fs) : fs[p[1]].header = hdr /\ fs[p[1]].rows[p[2]] = row})

RowsIn(fs) == UNION {{fs[k].rows[i] : i \in 1..Len(fs[k].rows)} : k \in 1..Len(fs)}

HeadersIn(fs) == {fs[k].header : k \in 1..Len(fs)}

\* split_csvs has finished and has written its four files
SplitDone == script = "split_untreated_monoculture" /\ pc = "done" /\ outputs # <<>>

\* the header of the first input that has one
FirstHeader == inputs[Min({k \in 1..Len(inputs) : inputs[k].header # <<>>})].header

\* the files split_csv_by_wells has been applied to
SeedingProcessed ==
    {k \in 1..Len(inputs) : k < idx /\ inputs[k].exists /\ ~SplitSeedingRaises(inputs[k])}

\* what it wrote for input k
SeedingOutputs(k) ==
    SelectSeq(outputs,
        LAMBDA o : \E folder \in {"20k_seeding_density", "30k_seeding_density"} :
                       o.name = SeedingOut(inputs[k].name, folder))

\* the well of the image of a row is in the lists of input k
SeedingMapped(k, row) ==
    LET w == extract_well_from_filename(CellText(PdGet(inputs[k].header, row, "Image")))
    IN  w # <<>> /\ w[1] \in file_well_mapping[k].wells20k \cup file_well_mapping[k].wells30k

\* for split_csv_by_wells the rows written for a file are, with their columns
\* and as often, its rows whose well is in the lists of that file
C5_SeedingRowsKept ==
    script = "split_seeding_data" =>
        \A k \in SeedingProcessed :
            /\ Len(SeedingOutputs(k)) = 2
            /\ \A hdr \in HeadersIn(<<inputs[k]>>) \cup HeadersIn(SeedingOutputs(k)) :
               \A row \in RowsIn(<<inputs[k]>>) \cup RowsIn(SeedingOutputs(k)) :
                  CountIn(SeedingOutputs(k), hdr, row) =
                      IF SeedingMapped(k, row) THEN CountIn(<<inputs[k]>>, hdr, row) ELSE 0

\* C5 as claimed: the rows written are, as a multiset of rows with their
\* columns, the input rows whose image carries a mapped well label
C5_Original ==
    /\ C5_SeedingRowsKept
    /\ SplitDone =>
          \A hdr \in HeadersIn(inputs) \cup HeadersIn(outputs) :
          \A row \in RowsIn(inputs) \cup RowsIn(outputs) :
              CountIn(outputs, hdr, row) =
                  IF classify_image(CellText(row[1])) # <<>>
                  THEN CountIn(inputs, hdr, row) ELSE 0

\* how often the files fs hold row, whatever their columns
CountRows(fs, row) == Cardinality({p \in Places(fs) : fs[p[1]].rows[p[2]] = row})

-----------------------------------------------------------------------------
-----------------------------------------------------------------------------
\* the well segment of an image given to the splitter
ClassSegOf(img) ==
    CHOOSE w \in ClassWellSegs :
        img = Image(<<"_", "D", "a", "y", "5">>, <<"_", "T", "i", "l", "e", "-", "0">>, w)

\* .tif in every mix of capitals
TifAnyCase == {<<".", t, i, f>> : t \in {"t", "T"}, i \in {"i", "I"}, f \in {"f", "F"}}

\* the label of a name that ends in _<A|B><1-6>.tif, in capitals
LabelOfEnding(w) ==
    LET hits == {x \in {"A", "B", "a", "b"} \X {"1", "2", "3", "4", "5", "6"} \X TifAnyCase :
                    w = <<"_", x[1], x[2]>> \o x[3]}
    IN  IF hits = {} THEN <<>>
        ELSE LET x == CHOOSE x \in hits : TRUE IN <<W(Upper(x[1]), x[2])>>

\* the rules of the module docstring
DocumentedGroup(label) ==
    CASE label[1] = "A" /\ label[2] \in {"1", "2", "3"} -> [seeding |-> "20k", line |-> "A2780Naive"]
      [] label[1] = "A" /\ label[2] \in {"4", "5", "6"} -> [seeding |-> "20k", line |-> "A2780cis"]
      [] label[1] = "B" /\ label[2] \in {"1", "2", "3"} -> [seeding |-> "30k", line |-> "A2780Naive"]
      [] label[1] = "B" /\ label[2] \in {"4", "5", "6"} -> [seeding |-> "30k", line |-> "A2780cis"]

\* C7: classify_image maps every name ending in _<A|B><1-6>.tif, in any case,
\* to the group of the documented rules, and every other name to None;
\* split_csvs writes each row it classifies to the file of its group and to
\* no other, as often as it was read.
C7_ClassifiedByRules ==
    script = "split_untreated_monoculture" =>
        /\ \A row \in RowsIn(inputs) :
              LET img == CellText(row[1])
                  label == LabelOfEnding(ClassSegOf(img))
              IN  classify_image(img) =
                      IF label = <<>> THEN <<>> ELSE <<DocumentedGroup(label[1])>>
        /\ SplitDone =>
              /\ \A k \in 1..4 :
                    /\ outputs[k].name = SplitOut(SplitGroups[k])
                    /\ \A i \in 1..Len(outputs[k].rows) :
                          classify_image(CellText(outputs[k].rows[i][1])) = <<SplitGroups[k]>>
              /\ \A row \in RowsIn(inputs) :
                    (Len(row) = Len(FirstHeader) /\ classify_image(CellText(row[1])) # <<>>)
                        => CountRows(outputs, row) = CountRows(inputs, row)

-----------------------------------------------------------------------------
Max(S) == CHOOSE x \in S : \A y \in S : x >= y

\* the well label of an image name: the text between the last underscore and
\* the extension, in capitals
WellLabel(img) ==
    LET dot == Min({i \in 1..Len(img) : img[i] = "."})
        us == {i \in 1..(dot - 1) : img[i] = "_"}
    IN  UpperStr(SubSeq(img, IF us = {} THEN 1 ELSE Max(us) + 1, dot - 1))

\* the seeding folders split_csv_by_wells wrote a row of input k into
SeedingAssigned(k, row) ==
    {folder \in {"20k_seeding_density", "30k_seeding_density"} :
        \E i \in 1..Len(outputs) :
            /\ outputs[i].name = SeedingOut(inputs[k].name, folder)
            /\ Count(outputs[i].rows, row) > 0}

SeedingLabel(k, row) == WellLabel(CellText(PdGet(inputs[k].header, row, "Image")))

\* the groups split_csvs wrote a row into
SplitAssigned(row) == {g \in 1..4 : Count(outputs[g].rows, row) > 0}

\* C8 as claimed: two rows with the same well label are assigned to the same
\* group or are both dropped, whichever file they come from, and no row is
\* assigned to two groups
C8_Original ==
    /\ script = "split_seeding_data" =>
          \A k1, k2 \in SeedingProcessed :
          \A r1 \in RowsIn(<<inputs[k1]>>) : \A r2 \in RowsIn(<<inputs[k2]>>) :
              /\ Cardinality(SeedingAssigned(k1, r1)) <= 1
              /\ SeedingLabel(k1, r1) = SeedingLabel(k2, r2) =>
                    SeedingAssigned(k1, r1) = SeedingAssigned(k2, r2)
    /\ SplitDone =>
          \A r1, r2 \in RowsIn(inputs) :
              /\ Cardinality(SplitAssigned(r1)) <= 1
              /\ WellLabel(CellText(r1[1])) = WellLabel(CellText(r2[1])) =>
                    SplitAssigned(r1) = SplitAssigned(r2)

\* C8 (amended): no row is assigned to two groups, and two rows with the same
\* well label are never assigned to different groups, whichever file they
\* come from; whether a row is kept at all also depends on its file: in
\* split_seeding_data a row is kept exactly when its well is in the lists
\* configured for its own input file, and a row whose well is outside them is
\* dropped while the file is still split and counted.
C8_NeverTwoGroups ==
    /\ script = "split_seeding_data" =>
          /\ \A k1, k2 \in SeedingProcessed :
             \A r1 \in RowsIn(<<inputs[k1]>>) : \A r2 \in RowsIn(<<inputs[k2]>>) :
                SeedingLabel(k1, r1) = SeedingLabel(k2, r2) =>
                    Cardinality(SeedingAssigned(k1, r1) \cup SeedingAssigned(k2, r2)) <= 1
          /\ \A k \in SeedingProcessed : \A r \in RowsIn(<<inputs[k]>>) :
                SeedingAssigned(k, r) =
                    IF SeedingLabel(k, r) \in file_well_mapping[k].wells20k
                    THEN {"20k_seeding_density"}
                    ELSE IF SeedingLabel(k, r) \in file_well_mapping[k].wells30k
                    THEN {"30k_seeding_density"}
                    ELSE {}
          /\ pc # "aborted" => nOk = Cardinality(SeedingProcessed)
    /\ SplitDone =>
          \A r1, r2 \in RowsIn(inputs) :
              WellLabel(CellText(r1[1])) = WellLabel(CellText(r2[1])) =>
                  Cardinality(SplitAssigned(r1) \cup SplitAssigned(r2)) <= 1

\* the well A4 was dropped from one file and kept, in the 20k folder, from
\* another
C8_Witness ==
    /\ script = "split_seeding_data"
    /\ \E k1, k2 \in SeedingProcessed :
       \E r1 \in RowsIn(<<inputs[k1]>>) : \E r2 \in RowsIn(<<inputs[k2]>>) :
          /\ SeedingLabel(k1, r1) = W("A", "4")
          /\ SeedingLabel(k2, r2) = W("A", "4")
          /\ SeedingAssigned(k1, r1) = {}
          /\ SeedingAssigned(k2, r2) = {"20k_seeding_density"}

-----------------------------------------------------------------------------
\* the days of the rows per_day_sample_stats wrote into f
ProducedDays(f) == {f.rows[i][1].q.n : i \in 1..Len(f.rows)}

\* the per-well means it wrote for a day
ProducedMeans(f, day) ==
    MapSeq(SelectSeq(f.rows, LAMBDA row : row[1].q.n = day), LAMBDA row : row[4].q)

\* C9: write_per_file_day_averages, run on a file per_day_sample_stats wrote,
\* writes one row per distinct Day of that file, its N Samples the number of
\* (Day, Well) rows of the Day and its Mean the mean of their per-well means.
C9_ConsumerCountsProducerRows ==
    (script = "compute_group_day_averages" /\ upstream = "compute_sample_averages") =>
        \A k \in 1..Len(outputs) :
            LET o == outputs[k]
                f == SrcOf(o, DayOut)
            IN  /\ Len(o.rows) = Cardinality(ProducedDays(f))
                /\ \A day \in ProducedDays(f) :
                      \E i \in 1..Len(o.rows) :
                          /\ o.rows[i][1] = IntCell(day)
                          /\ o.rows[i][2] = IntCell(Len(ProducedMeans(f, day)))
                          /\ o.rows[i][3] = Num(Micro(Fmt6(ArithMean(ProducedMeans(f, day)))))

-----------------------------------------------------------------------------
BatchScripts ==
    {"process_area_data", "create_averages", "compute_sample_averages",
     "create_day_averages", "split_seeding_data"}

\* C10: in every batch script a file that fails is logged and counted and the
\* remaining files are still processed: when the run is over every input
\* file has been attempted and successes plus failures are the number of
\* input files.
C10_EveryFileAttempted ==
    (script \in BatchScripts /\ upstream = "none" /\ pc \in {"done", "aborted"}) =>
        /\ idx = Len(inputs) + 1
        /\ nOk + nFail = Cardinality({k \in 1..Len(inputs) : inputs[k].exists})

-----------------------------------------------------------------------------
\* the file can be read and has a header, but not a column the script of the
\* run expects
LacksColumn(f) ==
    /\ f.exists
    /\ ~ReadCsvRaises(f)
    /\ CASE script = "process_area_data" -> ~HasCol(f.header, COL_AREA)
         [] script = "create_averages" ->
                \/ ~HasCol(f.header, "Image")
                \/ ~HasCol(f.header, CreateAvgValueCol(f.header))
         [] script = "split_seeding_data" -> ~HasCol(f.header, "Image")
         [] script = "create_day_averages" ->
                \/ ~HasCol(f.header, "Day")
                \/ ~HasCol(f.header, DayAvgValueCol(f.header))
         [] OTHER -> FALSE

\* the names the script of the run writes for an input
OutNamesOf(f) ==
    CASE script = "process_area_data" -> {ProcessedOut(f.name)}
      [] script = "create_averages" -> {SampleAvgOut(f.name)}
      [] script = "split_seeding_data" ->
             {SeedingOut(f.name, "20k_seeding_density"), SeedingOut(f.name, "30k_seeding_density")}
      [] script = "create_day_averages" -> {DayAvgOut(f.name)}
      [] OTHER -> {}

\* C11: a file that lacks a column the script expects is skipped without an
\* exception ending the run: nothing is written for it and the next file is
\* taken; in process_csv_file, create_averages.create_day_averages,
\* split_csv_by_wells and the Intermittent create_day_averages.
C11_MissingColumnSkipped ==
    (script \in {"process_area_data", "create_averages", "split_seeding_data",
                 "create_day_averages"} /\ upstream = "none") =>
        /\ pc = "aborted" => ~LacksColumn(inputs[idx])
        /\ \A k \in 1..(idx - 1) :
              LacksColumn(inputs[k]) =>
                  \A i \in 1..Len(outputs) : outputs[i].name \notin OutNamesOf(inputs[k])


\* the paths a run has written and the paths it reads
WrittenPaths == {outputs[i].name : i \in 1..Len(outputs)}

InputPaths == {inputs[k].name : k \in 1..Len(inputs)}

\* C12: process_area_data, split_untreated_monoculture and
\* compute_sample_averages never write to a file they read as input: in every
\* run the set of paths written is disjoint from the set of input paths.
C12_InputsNeverWritten ==
    script \in {"process_area_data", "split_untreated_monoculture",
                "compute_sample_averages"}
        => WrittenPaths \cap InputPaths = {}


\* the exception that ended the run came from reading inputs[idx]
ReadEndedRun ==
    /\ idx <= Len(inputs)
    /\ CASE script = "split_seeding_data" -> SplitSeedingRaises(inputs[idx])
         [] script \in {"create_averages", "create_sample_averages"} ->
               ReadCsvRaises(inputs[idx]) \/ CreateAvgRaises(inputs[idx])
         [] script \in {"split_untreated_monoculture", "compute_group_day_averages"} ->
               ~inputs[idx].readable
         [] OTHER -> FALSE

\* C13: every script creates the directory it is about to write into when it
\* does not exist yet, so no write fails for a missing output directory: every
\* file written lies in a directory that exists, and a run that an exception
\* ended was ended by reading an input, never by a write.
C13_OutputDirsCreated ==
    /\ \A i \in 1..Len(outputs) : outputs[i].name.dir \in dirs
    /\ pc = "aborted" => ReadEndedRun


\* split_csvs run on file f alone keeps row for the g-th output
KeptAlone(f, row, g) ==
    /\ row # <<>>
    /\ Len(row) = Len(f.header)
    /\ classify_image(CellText(row[1])) = <<SplitGroups[g]>>

\* C14: no state is carried from one input file to the next in a batch run:
\* each output of process_area_data and compute_sample_averages is what its own
\* input gives, and split_csvs writes a row of a file to an output as often as
\* the file holds it when the file by itself would have it kept, whatever the
\* other files of the run are.
C14_FilesIndependent ==
    /\ (script = "process_area_data" /\ upstream = "none") =>
          \A i \in 1..Len(outputs) :
              outputs[i] = process_csv_file(SrcOf(outputs[i], ProcessedOut), outputs[i].name)
    /\ script = "compute_sample_averages" =>
          \A i \in 1..Len(outputs) :
              outputs[i] = per_day_sample_stats(SampleSrc(outputs[i]), outputs[i].name)
    /\ SplitDone =>
          \A g \in 1..4 : \A row \in RowsIn(inputs) \cup RowsIn(outputs) :
              Count(outputs[g].rows, row) =
                  Cardinality({p \in Places(inputs) :
                                  /\ inputs[p[1]].rows[p[2]] = row
                                  /\ KeptAlone(inputs[p[1]], row, g)})


\* a header cell of f is a key of RENAMES
Renamable(f) == \E c \in 1..Len(f.header) : f.header[c] \in DOMAIN RENAMES

\* the files fix_processed_headers.py has been through
FixSeen == {k \in 1..Len(inputs) : k < idx}

\* the rewrites of the file of input k
RewritesOf(k) == {i \in 1..Len(outputs) : outputs[i].name = inputs[k].name}

\* C15: rewrite_csv_headers changes only the header cells that are keys of
\* RENAMES, each to its mapped name: the data rows, the number and order of the
\* columns and the other header cells stay as they were; the file is rewritten
\* and True returned exactly when a header cell was renamed, and an empty file
\* or a file with no such header cell is left untouched with False returned.
C15_OnlyHeaderKeysRenamed ==
    (script = "fix_processed_headers") =>
        /\ \A k \in FixSeen :
              IF Renamable(inputs[k])
              THEN /\ Cardinality(RewritesOf(k)) = 1
                   /\ \A i \in RewritesOf(k) :
                         /\ outputs[i].rows = inputs[k].rows
                         /\ Len(outputs[i].header) = Len(inputs[k].header)
                         /\ \A c \in 1..Len(inputs[k].header) :
                               outputs[i].header[c] =
                                   IF inputs[k].header[c] \in DOMAIN RENAMES
                                   THEN RENAMES[inputs[k].header[c]]
                                   ELSE inputs[k].header[c]
              ELSE RewritesOf(k) = {}
        /\ nOk = Cardinality({k \in FixSeen : Renamable(inputs[k])})

\* of an empty file and a file of per-well means with the Area names, the
\* second alone was rewritten, to the Cells names and with its two rows
C15_Witness ==
    /\ script = "fix_processed_headers"
    /\ pc = "done"
    /\ Len(inputs) = 2
    /\ inputs[1].readable /\ inputs[1].header = <<>>
    /\ inputs[2].header = LEGACY_SAMPLE_HEADER
    /\ nOk = 1
    /\ Len(outputs) = 1
    /\ outputs[1].header = <<"Day", "Well", "N Tiles", "Mean Cells", "SD Cells", "SEM Cells">>
    /\ Len(outputs[1].rows) = 2


\* the rows split_csvs accumulates under group g from the files ins[k..], the
\* canonical header having cols columns
RECURSIVE AccumulatedFrom(_, _, _, _)
AccumulatedFrom(ins, k, cols, g) ==
    IF k > Len(ins) THEN <<>>
    ELSE (IF ins[k].header = <<>> THEN <<>> ELSE SplitKept(ins[k], cols, g))
             \o AccumulatedFrom(ins, k + 1, cols, g)

\* the rows of the g-th output of split_csvs run on the readable files ins
SplitRowsOf(ins, g) ==
    LET withHeader == {k \in 1..Len(ins) : ins[k].header # <<>>}
    IN  SortRows(AccumulatedFrom(ins, 1, Len(ins[Min(withHeader)].header), SplitGroups[g]))

\* the orders the rows of a file can be in
Reorderings(rows) ==
    {[i \in 1..Len(rows) |-> rows[p[i]]] :
        p \in {q \in [1..Len(rows) -> 1..Len(rows)] :
                  \A i, j \in 1..Len(rows) : q[i] = q[j] => i = j}}

\* the same files with the rows of each in another order
Reordered(ins) ==
    {[k \in 1..Len(ins) |-> [ins[k] EXCEPT !.rows = rs[k]]] :
        rs \in {r \in [1..Len(ins) -> UNION {Reorderings(ins[k].rows) : k \in 1..Len(ins)}] :
                   \A k \in 1..Len(ins) : r[k] \in Reorderings(ins[k].rows)}}

\* C16: the four files split_csvs writes are determined by the rows of the
\* input files, whatever their order: a run on the same files with the rows
\* of each in another order writes the same rows in the same order to each
\* output.
C16_OrderOfRowsIrrelevant ==
    SplitDone =>
        \A g \in 1..4 :
            /\ outputs[g].rows = SplitRowsOf(inputs, g)
            /\ \A other \in Reordered(inputs) : SplitRowsOf(other, g) = outputs[g].rows


\* the file, before its header was fixed, that input k of the aggregating
\* script is
Unfixed(o, OutName(_)) ==
    original[CHOOSE k \in 1..Len(inputs) : OutName(inputs[k].name) = o.name]

\* C17: header fixing commutes with aggregation: an aggregating script run on
\* files that rewrite_csv_headers has been through reads the same groups from
\* each file and writes the same counts and statistics as it would for the
\* file as it was before, so no file loses all its rows by being fixed first.
C17_FixCommutes ==
    upstream = "fix_processed_headers" =>
        /\ script = "compute_group_day_averages" =>
              \A k \in 1..Len(inputs) :
                  read_per_well_means(inputs[k]) = read_per_well_means(original[k])
        /\ script = "compute_sample_averages" =>
              \A i \in 1..Len(outputs) :
                  outputs[i] =
                      per_day_sample_stats(Unfixed(outputs[i], SampleOut), outputs[i].name)
        /\ script = "create_averages" =>
              \A i \in 1..Len(outputs) :
                  outputs[i] =
                      CreateAvg_create_day_averages(Unfixed(outputs[i], SampleAvgOut),
                                                    outputs[i].name)
        /\ script = "create_day_averages" =>
              \A i \in 1..Len(outputs) :
                  outputs[i] =
                      DayAvg_create_day_averages(Unfixed(outputs[i], DayAvgOut),
                                                 outputs[i].name)

=============================================================================
